---- MODULE Spec2Model ----
(***************************************************************************)
(* GPIO aggregator (drivers/gpio/gpio-aggregator.c): the sysfs interface   *)
(* new_device / delete_device, the request parser aggr_parse and the       *)
(* lookup table it builds, the id map gpio_aggregator_idr, and the         *)
(* platform device each instance publishes.                                *)
(*                                                                         *)
(* A request string is modelled after tokenisation by next_arg(): a        *)
(* sequence of tokens, each token a sequence of lexical items (a decimal   *)
(* number, ',', '-', or a run of other characters).                        *)
(***************************************************************************)
EXTENDS Integers, Sequences, FiniteSets, TLC

(***************************************************************************)
(* Program constants                                                       *)
(***************************************************************************)
AGGREGATOR_MAX_GPIOS == 512
U16_MAX == 65535

(***************************************************************************)
(* Bounds of the model                                                     *)
(***************************************************************************)
\* longest request (in tokens) given to the parser on its own
MaxTokens == 3
\* largest number of krealloc() calls that succeed before one fails
MaxMem == 2

(***************************************************************************)
(* Lexical items and tokens                                                *)
(***************************************************************************)
N(v) == [k |-> "num", n |-> v, w |-> ""]
W(s) == [k |-> "word", n |-> 0, w |-> s]
Comma == [k |-> "comma", n |-> 0, w |-> ","]
Dash == [k |-> "dash", n |-> 0, w |-> "-"]

IsNum(items) == items # <<>> /\ Head(items).k = "num"

\* the empty string: what next_arg() yields as param once the input is used up
NoToken == <<>>

(***************************************************************************)
(* lib/cmdline.c: get_option(), get_range(), get_options() with nints = 0  *)
(* (validation mode).  The result is the count stored in ints[0] and the   *)
(* unparsed rest of the token.                                             *)
(***************************************************************************)
get_option(items) ==
    IF items = <<>> THEN [res |-> 0, val |-> 0, rest |-> items]
    ELSE LET neg == Head(items).k = "dash"
             cur == IF neg THEN Tail(items) ELSE items
         IN IF ~IsNum(cur) THEN [res |-> 0, val |-> 0, rest |-> cur]
            ELSE LET v == IF neg THEN 0 - Head(cur).n ELSE Head(cur).n
                     after == Tail(cur)
                 IN IF after # <<>> /\ Head(after).k = "comma"
                       THEN [res |-> 2, val |-> v, rest |-> Tail(after)]
                    ELSE IF after # <<>> /\ Head(after).k = "dash"
                       THEN [res |-> 3, val |-> v, rest |-> after]
                    ELSE [res |-> 1, val |-> v, rest |-> after]

\* simple_strtol() of the text after the '-' of a range
get_range_upper(items) ==
    IF IsNum(items) THEN Head(items).n
    ELSE IF items # <<>> /\ Head(items).k = "dash" /\ IsNum(Tail(items))
         THEN 0 - Head(Tail(items)).n
    ELSE 0

RECURSIVE get_options_loop(_, _)
get_options_loop(items, i) ==
    LET g == get_option(items) IN
    IF g.res = 0 THEN [n |-> i - 1, rest |-> g.rest]
    ELSE IF g.res = 3
         THEN LET str == Tail(g.rest)
                  range_nums == get_range_upper(str) - g.val
              IN IF range_nums < 0 THEN [n |-> i - 1, rest |-> str]
                 ELSE get_options_loop(str, i + range_nums)
    ELSE IF g.res = 2 THEN get_options_loop(g.rest, i + 1)
    ELSE [n |-> i, rest |-> g.rest]

get_options(items) == get_options_loop(items, 1)

(***************************************************************************)
(* lib/bitmap.c: bitmap_parselist().  The bitmap is the set of set bits.   *)
(***************************************************************************)
RECURSIVE bitmap_find_region(_)
bitmap_find_region(items) ==
    IF items # <<>> /\ Head(items).k = "comma"
    THEN bitmap_find_region(Tail(items)) ELSE items

RECURSIVE bitmap_parselist_loop(_, _, _)
bitmap_parselist_loop(items, bits, nmaskbits) ==
    LET buf == bitmap_find_region(items) IN
    IF buf = <<>> THEN [err |-> "OK", bits |-> bits]
    ELSE IF ~IsNum(buf) THEN [err |-> "EINVAL", bits |-> bits]
    ELSE LET start == Head(buf).n
             r1 == Tail(buf)
             isRange == r1 # <<>> /\ Head(r1).k = "dash"
         IN IF isRange /\ ~IsNum(Tail(r1)) THEN [err |-> "EINVAL", bits |-> bits]
            ELSE LET end == IF isRange THEN Head(Tail(r1)).n ELSE start
                     r2 == IF isRange THEN Tail(Tail(r1)) ELSE r1
                 IN IF r2 # <<>> /\ Head(r2).k # "comma"
                       THEN [err |-> "EINVAL", bits |-> bits]
                    ELSE IF start > end THEN [err |-> "EINVAL", bits |-> bits]
                    ELSE IF end >= nmaskbits THEN [err |-> "ERANGE", bits |-> bits]
                    ELSE bitmap_parselist_loop(r2, bits \cup (start..end), nmaskbits)

\* bitmap_parselist() starts from bitmap_zero()
bitmap_parselist(items, nmaskbits) == bitmap_parselist_loop(items, {}, nmaskbits)

(***************************************************************************)
(* The lookup table: struct gpiod_lookup_table.  table is the array of     *)
(* entries, ended by a zeroed entry (key = NoKey).                         *)
(***************************************************************************)
NoKey == <<W("")>>
ZeroEntry == [key |-> NoKey, chip_hwnum |-> 0, idx |-> 0]
\* GPIO_LOOKUP_IDX(key, hwnum, NULL, idx, 0)
GPIO_LOOKUP_IDX(key, hwnum, idx) == [key |-> key, chip_hwnum |-> hwnum, idx |-> idx]

\* kzalloc(struct_size(lookups, table, 1)): one zeroed entry, dev_id NULL
NoDevId == -1
EmptyTable == [dev_id |-> NoDevId, table |-> <<ZeroEntry>>]

\* mem: how many krealloc() calls still succeed; Unlimited: all of them
Unlimited == -1

\* aggr_add_gpio without (*n)++
aggr_add_gpio_noinc(lookups, key, hwnum, n, mem) ==
    IF mem = 0 THEN [err |-> "ENOMEM", lookups |-> lookups, n |-> n]
    ELSE LET grown == [i \in 1..(n + 2) |->
                          IF i <= Len(lookups.table) THEN lookups.table[i]
                          ELSE ZeroEntry]
             set == [grown EXCEPT ![n + 1] = GPIO_LOOKUP_IDX(key, hwnum, n)]
         IN [err |-> "OK", lookups |-> [lookups EXCEPT !.table = set], n |-> n]

\* aggr_add_gpio storing the incremented counter as the entry's index
aggr_add_gpio_idx(lookups, key, hwnum, n, mem) ==
    IF mem = 0 THEN [err |-> "ENOMEM", lookups |-> lookups, n |-> n]
    ELSE LET grown == [i \in 1..(n + 2) |->
                          IF i <= Len(lookups.table) THEN lookups.table[i]
                          ELSE ZeroEntry]
             n1 == n + 1
             set == [grown EXCEPT ![n + 1] = GPIO_LOOKUP_IDX(key, hwnum, n1)]
             cleared == [set EXCEPT ![n1 + 1] = ZeroEntry]
         IN [err |-> "OK", lookups |-> [lookups EXCEPT !.table = cleared], n |-> n1]

\* One call of aggr_add_gpio on lookups with counter n.
aggr_add_gpio(lookups, key, hwnum, n, mem) ==
    IF mem = 0 THEN [err |-> "ENOMEM", lookups |-> lookups, n |-> n]
    ELSE LET grown == [i \in 1..(n + 2) |->
                          IF i <= Len(lookups.table) THEN lookups.table[i]
                          ELSE ZeroEntry]
             set == [grown EXCEPT ![n + 1] = GPIO_LOOKUP_IDX(key, hwnum, n)]
             n1 == n + 1
             cleared == [set EXCEPT ![n1 + 1] = ZeroEntry]
         IN [err |-> "OK", lookups |-> [lookups EXCEPT !.table = cleared], n |-> n1]

Dec(mem) == IF mem = Unlimited THEN Unlimited ELSE mem - 1

\* for_each_set_bit(i, bitmap, AGGREGATOR_MAX_GPIOS) aggr_add_gpio(aggr, name, i, &n):
\* the bit positions lo..hi are visited in ascending order (the range is halved
\* to keep the evaluation shallow, and find_next_bit() skips a range without
\* set bits); st is [err, lookups, n, mem].
RECURSIVE aggr_add_bits_range(_, _, _, _, _)
aggr_add_bits_range(st, name, bits, lo, hi) ==
    IF st.err # "OK" \/ lo > hi THEN st
    ELSE IF \A b \in bits : b < lo \/ b > hi THEN st
    ELSE IF lo = hi
         THEN IF lo \notin bits THEN st
              ELSE LET a == aggr_add_gpio(st.lookups, name, lo, st.n, st.mem)
                   IN [err |-> a.err, lookups |-> a.lookups, n |-> a.n,
                       mem |-> IF a.err = "OK" THEN Dec(st.mem) ELSE st.mem]
    ELSE LET mid == (lo + hi) \div 2
         IN aggr_add_bits_range(aggr_add_bits_range(st, name, bits, lo, mid),
                                name, bits, mid + 1, hi)

\* the loop over the set bits starting at bit 1
aggr_add_bits_from1(lookups, name, bits, n, mem) ==
    aggr_add_bits_range([err |-> "OK", lookups |-> lookups, n |-> n, mem |-> mem],
                        name, bits, 1, AGGREGATOR_MAX_GPIOS - 1)

aggr_add_bits(lookups, name, bits, n, mem) ==
    aggr_add_bits_range([err |-> "OK", lookups |-> lookups, n |-> n, mem |-> mem],
                        name, bits, 0, AGGREGATOR_MAX_GPIOS - 1)

\* bitmap_parselist with a bitmap one bit longer than the loop reads
parse_offsets_wide(offsets) == bitmap_parselist(offsets, AGGREGATOR_MAX_GPIOS + 1)

\* line 93: bitmap_parselist(offsets, bitmap, AGGREGATOR_MAX_GPIOS)
parse_offsets(offsets) == bitmap_parselist(offsets, AGGREGATOR_MAX_GPIOS)

\* The while (*args) loop of aggr_parse: rem is the unread rest of args.
RECURSIVE aggr_parse_loop(_, _, _, _, _)
aggr_parse_loop(rem, name, lookups, n, mem) ==
    IF rem = <<>>
    THEN [err |-> IF n = 0 THEN "EINVAL" ELSE "OK",
          msg |-> IF n = 0 THEN "No GPIOs specified" ELSE "",
          lookups |-> lookups, n |-> n]
    ELSE LET offsets == Head(rem)
             p == get_options(offsets)
         IN IF p.n = 0 \/ p.rest # <<>>
            THEN \* Named GPIO line
                 LET a == aggr_add_gpio(lookups, name, U16_MAX, n, mem)
                 IN IF a.err # "OK"
                       THEN [err |-> a.err, msg |-> "", lookups |-> a.lookups, n |-> a.n]
                    ELSE aggr_parse_loop(Tail(rem), offsets, a.lookups, a.n, Dec(mem))
            ELSE \* GPIO chip + offset(s)
                 LET bm == parse_offsets(offsets)
                 IN IF bm.err # "OK"
                       THEN [err |-> bm.err, msg |-> "Cannot parse",
                             lookups |-> lookups, n |-> n]
                    ELSE LET b == aggr_add_bits(lookups, name, bm.bits, n, mem)
                             rest == Tail(rem)
                         IN IF b.err # "OK"
                               THEN [err |-> b.err, msg |-> "",
                                     lookups |-> b.lookups, n |-> b.n]
                            ELSE IF rest = <<>>
                               THEN aggr_parse_loop(rest, NoToken, b.lookups, b.n, b.mem)
                            ELSE aggr_parse_loop(Tail(rest), Head(rest),
                                                 b.lookups, b.n, b.mem)

\* aggr_parse taking the end of args as one more, empty, token
aggr_parse_lastlabel(args, lookups, mem) ==
    IF args = <<>> THEN aggr_parse_loop(<<>>, NoToken, lookups, 0, mem)
    ELSE aggr_parse_loop(Append(Tail(args), NoToken), Head(args), lookups, 0, mem)

\* aggr_parse(aggr): args is aggr->args, lookups is aggr->lookups on entry.
aggr_parse(args, lookups, mem) ==
    IF args = <<>> THEN aggr_parse_loop(<<>>, NoToken, lookups, 0, mem)
    ELSE aggr_parse_loop(Tail(args), Head(args), lookups, 0, mem)

(***************************************************************************)
(* The parser on its own: the request and the allocation budget are drawn  *)
(* at Init, ParseRun applies aggr_parse to a fresh table.                  *)
(***************************************************************************)
TokGpio0 == <<W("gpio0")>>
TokGpio1 == <<W("gpio1")>>
ParseTokens ==
    { TokGpio0, TokGpio1,
      <<N(2)>>,
      <<N(3), Comma, N(3)>>,
      <<N(1), Comma, N(3), Dash, N(4)>>,
      <<N(4), Comma, N(1)>>,
      <<N(510), Dash, N(511)>>,
      <<N(512)>>,
      <<N(511), Dash, N(512)>>,
      <<N(5), Dash, N(3)>>,
      <<Dash, N(1)>>,
      <<N(3), W("x")>> }

RECURSIVE SeqsUpTo(_, _)
SeqsUpTo(S, len) ==
    IF len = 0 THEN {<<>>}
    ELSE LET shorter == SeqsUpTo(S, len - 1)
         IN shorter \cup {Append(s, x) : s \in {q \in shorter : Len(q) = len - 1}, x \in S}

\* the request of the spec's scenario, "gpio0 1,3-4 gpio1 2"
ScenarioRequest == <<TokGpio0, <<N(1), Comma, N(3), Dash, N(4)>>, TokGpio1, <<N(2)>>>>
\* two full groups, "gpio0 0-511 gpio1 0-511", and one line more than a full group
TwoFullGroups == <<TokGpio0, <<N(0), Dash, N(511)>>, TokGpio1, <<N(0), Dash, N(511)>>>>
FullGroupPlusOne == <<TokGpio0, <<N(0), Dash, N(511)>>, TokGpio1, <<N(2)>>>>
OneFullGroup == <<TokGpio0, <<N(0), Dash, N(511)>>>>

ParseRequests ==
    SeqsUpTo(ParseTokens, MaxTokens) \cup {ScenarioRequest, OneFullGroup, TwoFullGroups, FullGroupPlusOne}

MemChoices == {Unlimited} \cup (0..MaxMem)

\* the parser run on its own: its position, its input, its result
VARIABLES p_pc, p_args, p_mem, p_out

pvars == <<p_pc, p_args, p_mem, p_out>>

NoOut == [err |-> "none", msg |-> "", lookups |-> EmptyTable, n |-> 0]

(***************************************************************************)
(* The GPIO forwarder (struct gpiochip_fwd): its state and the functions   *)
(* of its batched operations.  A bitmap is the set of its set bits; a      *)
(* handle (a struct gpio_desc pointer) is the line it stands for.          *)
(***************************************************************************)
\* lines of the modelled forwarder (chip.ngpio)
FwdNgpio == 2

Positions == 0..(FwdNgpio - 1)
\* a NULL struct gpio_desc *
NoDesc == 0
\* the provider's lines: the line FwdNgpio - o is the one offered for the
\* position o; one more line, an input behind a sleeping bus
FwdLines == 1..(FwdNgpio + 1)
SleepLine == FwdNgpio + 1
PlainLine(o) == FwdNgpio - o
\* a word of memory that is not NULL and not a handle of the model
Garbage == FwdNgpio + 2
FwdThreads == {1, 2}

VARIABLES
    fwd,        \* the struct gpiochip_fwd
    fwd_lock,   \* the thread holding fwd->mlock / fwd->slock, or NULL
    line_val,   \* line -> the value the provider reads on it
    fcall,      \* thread -> the chip callback it is in
    fwd_rt      \* history: the get / set / get sequence in progress

fvars == <<fwd, fwd_lock, line_val, fcall, fwd_rt>>

\* gpiod_cansleep(desc)
gpiod_cansleep(desc) == desc = SleepLine
\* whether a write of the provider changes the line
LineIsOutput(l) == l # SleepLine

\* a zeroed struct gpiochip_fwd_timing
ZeroTiming == [ramp_up_us |-> 0, ramp_down_us |-> 0]

\* lines 514-522: the callbacks devm_gpio_fwd_alloc puts in the chip
AllocCallbacks == {"request", "get_direction", "direction_input",
                   "direction_output", "get", "get_multiple", "set",
                   "set_multiple", "to_irq"}

\* before devm_gpio_fwd_alloc.  past is the word of memory after descs[];
\* has_timings is fwd->delay_timings != NULL; callbacks are the chip's
\* callbacks that are not NULL;
\* reg_descs, reg_past and reg_can_sleep are history: descs, past and
\* can_sleep when gpio_fwd_register ran
NoFwd == [st |-> "none", ngpio |-> 0,
          descs |-> [o \in Positions |-> NoDesc], past |-> NoDesc,
          can_sleep |-> FALSE, lock_init |-> "none",
          tmp_values |-> {}, tmp_descs |-> [o \in Positions |-> NoDesc],
          reg_descs |-> [o \in Positions |-> NoDesc], reg_past |-> NoDesc,
          reg_can_sleep |-> FALSE,
          has_timings |-> FALSE, delay_timings |-> [o \in Positions |-> ZeroTiming],
          callbacks |-> {}, of_gpio_n_cells |-> 0]

\* lines 494-527: devm_gpio_fwd_alloc(dev, ngpios): zeroed memory, the chip's
\* callbacks, chip->ngpio
devm_gpio_fwd_alloc(ngpios) ==
    [NoFwd EXCEPT !.st = "alloc", !.ngpio = ngpios, !.callbacks = AllocCallbacks]

\* lines 530-554: gpio_fwd_add_gpio_desc(fwd, desc, offset); read_past is what
\* the read of fwd->descs[offset] gives when offset = chip->ngpio
gpio_fwd_add_gpio_desc(f, desc, offset, read_past) ==
    IF offset > f.ngpio THEN [err |-> "EINVAL", fwd |-> f]
    ELSE LET cur == IF offset < f.ngpio THEN f.descs[offset] ELSE read_past
             sl == f.can_sleep \/ gpiod_cansleep(desc)
         IN IF cur # NoDesc THEN [err |-> "EEXIST", fwd |-> f]
            ELSE IF offset < f.ngpio
                 THEN [err |-> "OK",
                       fwd |-> [f EXCEPT !.can_sleep = sl, !.descs[offset] = desc]]
                 ELSE [err |-> "OK",
                       fwd |-> [f EXCEPT !.can_sleep = sl, !.past = desc]]

\* gpio_fwd_register without the count of the bound handles
register_can_sleep_nocount(f) == f.can_sleep

\* lines 563-572: ndescs counts the bound handles; if (ndescs != chip->ngpio)
\* chip->can_sleep = true
register_can_sleep(f) ==
    LET ndescs == Cardinality({i \in 0..(f.ngpio - 1) : f.descs[i] # NoDesc})
    IN f.can_sleep \/ ndescs # f.ngpio

\* lines 557-582: gpio_fwd_register(fwd); error is the result of
\* devm_gpiochip_add_data
gpio_fwd_register(f, error) ==
    LET cs == register_can_sleep(f) IN
    [f EXCEPT !.can_sleep = cs,
              !.lock_init = IF cs THEN "mutex" ELSE "spin",
              !.st = IF error = "OK" THEN "registered" ELSE "failed",
              !.reg_descs = f.descs, !.reg_past = f.past, !.reg_can_sleep = cs]

\* gpio_fwd_request answering 0 for every position
gpio_fwd_request_any(f, offset) == "0"

\* lines 263-268: gpio_fwd_request(chip, offset)
gpio_fwd_request(f, offset) ==
    IF f.descs[offset] # NoDesc THEN "0" ELSE "ENODEV"

\* the bits of mask below i: the place of position i in the compacted arrays
fwd_rank(i, mask) == Cardinality({k \in mask : k < i})

\* lines 314-315, 394-397: for_each_set_bit(i, mask, ngpio) descs[j++] =
\* fwd->descs[i]
RECURSIVE fwd_compact(_, _, _)
fwd_compact(f, mask, i) ==
    IF i >= f.ngpio THEN <<>>
    ELSE IF i \in mask THEN <<f.descs[i]>> \o fwd_compact(f, mask, i + 1)
    ELSE fwd_compact(f, mask, i + 1)

\* gpiod_get_array_value(j, descs, NULL, values): bit k of values is the value
\* of the line of descs[k]
gpiod_get_array_value(descs, lv) ==
    {k \in 0..(Len(descs) - 1) : lv[descs[k + 1]] = 1}

\* gpiod_set_array_value(j, descs, NULL, values): the line of descs[k], if it
\* is an output, gets bit k of values
gpiod_set_array_value(descs, values, lv) ==
    [l \in FwdLines |->
        IF LineIsOutput(l) /\ \E k \in 1..Len(descs) : descs[k] = l
        THEN LET k == CHOOSE x \in 1..Len(descs) : descs[x] = l
             IN IF (k - 1) \in values THEN 1 ELSE 0
        ELSE lv[l]]

\* the expansion taking bit i of values for position i
fgm_expand_nocompact(mask, bits, values) ==
    (bits \ mask) \cup {i \in mask : i \in values}

\* lines 324-326: j = 0; for_each_set_bit(i, mask, ngpio)
\* __assign_bit(i, bits, test_bit(j++, values))
fgm_expand(mask, bits, values) ==
    (bits \ mask) \cup {i \in mask : fwd_rank(i, mask) \in values}

\* gpio_fwd_get_multiple going on to the expansion after an error
fgm_result_onerror(error, mask, bits, values) == fgm_expand(mask, bits, values)

\* lines 321-328: if (error) return error; else the expansion into bits
fgm_result(error, mask, bits, values) ==
    IF error # "OK" THEN bits ELSE fgm_expand(mask, bits, values)

\* the compaction putting the bit of position i at bit i of values
fsm_values_nocompact(mask, bits) == mask \cap bits

\* lines 394-395: __assign_bit(j, values, test_bit(i, bits))
fsm_values(mask, bits) == {fwd_rank(i, mask) : i \in mask \cap bits}

(***************************************************************************)
(* The single-line operations.  The provider treats a NULL handle as an    *)
(* optional line that is absent: a read of it gives 0, a write or a        *)
(* configuration of it does nothing and gives 0, and it is not active-low. *)
(***************************************************************************)
\* the lines the provider presents inverted (GPIO_ACTIVE_LOW)
ActiveLowLines == {PlainLine(FwdNgpio - 1), SleepLine}

\* gpiod_is_active_low(desc)
gpiod_is_active_low(desc) == desc # NoDesc /\ desc \in ActiveLowLines

\* gpiod_get_value[_cansleep](desc): the value of the line, or a negative
\* error of the provider
gpiod_get_value(desc, lv, error) ==
    IF desc = NoDesc THEN "0"
    ELSE IF error # "OK" THEN error
    ELSE IF lv[desc] = 1 THEN "1" ELSE "0"

\* gpiod_set_value[_cansleep](desc, value)
gpiod_set_value(desc, value, lv) ==
    IF desc = NoDesc \/ ~LineIsOutput(desc) THEN lv
    ELSE [lv EXCEPT ![desc] = value]

\* the results of a chip callback that are values of a line
LineValues == {"0", "1"}

\* lines 296-302: gpio_fwd_get(chip, offset)
gpio_fwd_get(f, offset, lv, error) ==
    [res |-> gpiod_get_value(f.descs[offset], lv, error),
     prim |-> IF f.can_sleep THEN "gpiod_get_value_cansleep" ELSE "gpiod_get_value"]

\* line 446: FWD_FEATURE_DELAY is BIT(0)
FWD_FEATURE_DELAY == 1

\* what devm_gpio_fwd_alloc returns: the forwarder, or ERR_PTR(-ENOMEM)
\* (lines 503, 507); it never returns NULL
ErrPtr == "ERR_PTR(-ENOMEM)"

\* no wait primitive invoked
NoWait == [prim |-> "none", us |-> 0]

\* gpio_fwd_set without the delay
gpio_fwd_set_nodelay(f, offset, value, lv) ==
    [lv |-> gpiod_set_value(f.descs[offset], value, lv),
     wrote |-> f.descs[offset],
     prim |-> IF f.can_sleep THEN "gpiod_set_value_cansleep" ELSE "gpiod_set_value",
     wait |-> NoWait]

\* gpio_fwd_delay taking value alone for the direction of the transition
delay_is_rising_nopolarity(is_active_low, value) == value = 1

\* line 360: (!is_active_low && value) || (is_active_low && !value)
delay_is_rising(is_active_low, value) ==
    (~is_active_low /\ value = 1) \/ (is_active_low /\ value = 0)

\* gpio_fwd_delay sleeping whatever chip->can_sleep is
delay_wait_fsleep(can_sleep, delay_us) == [prim |-> "fsleep", us |-> delay_us]

\* lines 364-370: if (!delay_us) return; fsleep(delay_us) or udelay(delay_us)
delay_wait(can_sleep, delay_us) ==
    IF delay_us = 0 THEN NoWait
    ELSE [prim |-> IF can_sleep THEN "fsleep" ELSE "udelay", us |-> delay_us]

\* lines 352-371: gpio_fwd_delay(chip, offset, value): the wait it performs
gpio_fwd_delay(f, offset, value) ==
    LET is_active_low == gpiod_is_active_low(f.descs[offset])
        delay_timings == f.delay_timings[offset]
        delay_us == IF delay_is_rising(is_active_low, value)
                    THEN delay_timings.ramp_up_us
                    ELSE delay_timings.ramp_down_us
    IN delay_wait(f.can_sleep, delay_us)

\* lines 373-384: gpio_fwd_set(chip, offset, value): the lines after the
\* write, the line written, the provider's function and the wait
gpio_fwd_set(f, offset, value, lv) ==
    [lv |-> gpiod_set_value(f.descs[offset], value, lv),
     wrote |-> f.descs[offset],
     prim |-> IF f.can_sleep THEN "gpiod_set_value_cansleep" ELSE "gpiod_set_value",
     wait |-> IF f.has_timings THEN gpio_fwd_delay(f, offset, value) ELSE NoWait]

\* no configuration: what the provider has received before any set_config
NoCfg == 0
\* the raw configurations a consumer passes
Configs == {1, 2}

\* gpiod_set_config(desc, config): the handle and the configuration that
\* reach the provider, and its answer
gpiod_set_config(desc, config, answer) ==
    IF desc = NoDesc THEN [res |-> "0", wrote |-> NoDesc, cfg |-> NoCfg]
    ELSE [res |-> answer, wrote |-> desc, cfg |-> config]

\* lines 423-430: gpio_fwd_set_config(chip, offset, config)
gpio_fwd_set_config(f, offset, config, answer) ==
    gpiod_set_config(f.descs[offset], config, answer)

\* a set_config call on the composite device: gpiolib calls the chip's
\* set_config callback, and answers -ENOTSUPP when the chip has none
chip_set_config(f, offset, config, answer) ==
    IF "set_config" \in f.callbacks
    THEN gpio_fwd_set_config(f, offset, config, answer)
    ELSE [res |-> "ENOTSUPP", wrote |-> NoDesc, cfg |-> NoCfg]

\* line 482: chip->of_gpio_n_cells = 3
DelayCells == 3
\* the delay of the modelled ramp, in microseconds
RampUs == 200

\* lines 449-469: gpio_fwd_delay_of_xlate(chip, gpiospec, flags), with
\* gpiospec->args = (line, ramp_up_us, ramp_down_us)
gpio_fwd_delay_of_xlate(f, args_count, line, up, down) ==
    IF args_count # f.of_gpio_n_cells THEN [err |-> "EINVAL", fwd |-> f]
    ELSE IF line >= f.ngpio THEN [err |-> "EINVAL", fwd |-> f]
    ELSE [err |-> "OK",
          fwd |-> [f EXCEPT !.delay_timings[line] =
                              [ramp_up_us |-> up, ramp_down_us |-> down]]]

\* lines 471-485: gpio_fwd_setup_delay_line(fwd) (CONFIG_OF_GPIO); error is
\* the result of devm_kcalloc
gpio_fwd_setup_delay_line(f, error) ==
    IF error # "OK" THEN [err |-> "ENOMEM", fwd |-> f]
    ELSE [err |-> "OK",
          fwd |-> [f EXCEPT !.has_timings = TRUE,
                            !.delay_timings = [o \in Positions |-> ZeroTiming],
                            !.callbacks = @ \cup {"of_xlate"},
                            !.of_gpio_n_cells = DelayCells]]

(***************************************************************************)
(* The layout of tmp[], in words (unsigned long; a handle is one word):    *)
(* which words a batched operation writes, for a forwarder of ngpio lines  *)
(* on a build whose words have bpl bits.                                   *)
(***************************************************************************)
\* the largest line count of the layout
MaxScratchN == 66
\* BITS_PER_LONG of the builds
WordBits == {32, 64}

\* BITS_TO_LONGS(nr): DIV_ROUND_UP(nr, BITS_PER_LONG)
BITS_TO_LONGS(nr, bpl) == (nr + bpl - 1) \div bpl

\* tmp's handles starting at the word ngpio / BITS_PER_LONG, rounded down
fwd_tmp_descs_rounddown(ngpio, bpl) == ngpio \div bpl

\* line 259: fwd_tmp_descs(fwd) is &tmp[BITS_TO_LONGS(ngpio)]; line 258:
\* fwd_tmp_values(fwd) is &tmp[0]
fwd_tmp_descs(ngpio, bpl) == BITS_TO_LONGS(ngpio, bpl)

\* line 261: fwd_tmp_size(ngpios), the words of tmp[] that line 500 allocates
fwd_tmp_size(ngpios, bpl) == BITS_TO_LONGS(ngpios, bpl) + ngpios

\* the words of values that hold the bits below nbits
bitmap_words(nbits, bpl) == {b \div bpl : b \in 0..(nbits - 1)}

\* for_each_set_bit(i, mask, ngpio): the bits of mask below ngpio
mask_bits(mask, ngpio) == {i \in mask : i < ngpio}

\* lines 313-320: the words of tmp[] written by bitmap_clear(values, 0,
\* ngpio), by descs[j++] = ... and by the provider's j values
fgm_tmp_writes(ngpio, bpl, mask) ==
    LET j == Cardinality(mask_bits(mask, ngpio)) IN
    [values |-> bitmap_words(ngpio, bpl) \cup bitmap_words(j, bpl),
     descs |-> {fwd_tmp_descs(ngpio, bpl) + k : k \in 0..(j - 1)}]

\* lines 394-397: the words of tmp[] written by __assign_bit(j, values, ...)
\* and by descs[j++] = ...
fsm_tmp_writes(ngpio, bpl, mask) ==
    LET j == Cardinality(mask_bits(mask, ngpio)) IN
    [values |-> bitmap_words(j, bpl),
     descs |-> {fwd_tmp_descs(ngpio, bpl) + k : k \in 0..(j - 1)}]

\* the batched call whose writes are traced: pc, op, the forwarder's ngpio,
\* the build's bpl, the mask, size (the words allocated) and the words
\* written
VARIABLES scratch

svars == <<scratch>>

NoScratch == [pc |-> "off", op |-> "none", ngpio |-> 0, bpl |-> 0, mask |-> {},
              size |-> 0, values |-> {}, descs |-> {}]

ScratchOff == scratch = NoScratch

\* the masks: the first k lines, the last k lines, one line, and all the
\* lines with the bit after them
ScratchMasks(n) ==
    {0..(k - 1) : k \in 0..n} \cup {(n - k)..(n - 1) : k \in 0..n}
    \cup {{k} : k \in 0..(n - 1)} \cup {0..n}

\* line 500: the forwarder is allocated with fwd_tmp_size(ngpios) words
ScratchInit ==
    \E n \in 0..MaxScratchN : \E bpl \in WordBits : \E mask \in ScratchMasks(n) :
        scratch = [NoScratch EXCEPT !.pc = "start", !.ngpio = n, !.bpl = bpl,
                                    !.mask = mask, !.size = fwd_tmp_size(n, bpl)]

(***************************************************************************)
(* The line provider (gpiolib), as the aggregator's probe sees it: the     *)
(* chips with their line counts, the named lines, and which lines are      *)
(* requested.  A line is <<chip label, offset>>.                           *)
(***************************************************************************)
ChipLabels == {"gpio0", "gpio1"}
\* lines per chip of the modelled board
ChipNgpio == 5
LineNames == [led |-> <<"gpio1", 0>>]

NoLine == <<"", 0>>

\* gpiod_find() for one table entry: the line it names, or the error
gpiod_find_entry(e) ==
    LET txt == IF Len(e.key) = 1 /\ e.key[1].k = "word" THEN e.key[1].w ELSE "" IN
    IF e.chip_hwnum = U16_MAX
    THEN IF txt \in DOMAIN LineNames
            THEN [err |-> "OK", line |-> LineNames[txt]]
            ELSE [err |-> "EPROBE_DEFER", line |-> NoLine]
    ELSE IF txt \notin ChipLabels THEN [err |-> "EPROBE_DEFER", line |-> NoLine]
    ELSE IF ChipNgpio <= e.chip_hwnum THEN [err |-> "EINVAL", line |-> NoLine]
    ELSE [err |-> "OK", line |-> <<txt, e.chip_hwnum>>]

\* the entries of a table before its zeroed end entry
RECURSIVE table_count(_, _)
table_count(table, i) ==
    IF i > Len(table) \/ table[i].key = NoKey THEN i - 1
    ELSE table_count(table, i + 1)

\* gpiod_count(dev, NULL) on the device's lookup table
gpiod_count(table) ==
    LET c == table_count(table, 1) IN
    IF c = 0 THEN [err |-> "ENOENT", n |-> 0] ELSE [err |-> "OK", n |-> c]

\* devm_gpiod_get_index(dev, NULL, i, GPIOD_ASIS): find the entry with idx = i,
\* resolve it, request the line (busy: already requested)
devm_gpiod_get_index(table, i, held) ==
    LET c == table_count(table, 1)
        hits == {j \in 1..c : table[j].idx = i}
    IN IF hits = {} THEN [err |-> "ENOENT", line |-> NoLine]
       ELSE LET j == CHOOSE x \in hits : \A y \in hits : x <= y
                f == gpiod_find_entry(table[j])
            IN IF f.err # "OK" THEN f
               ELSE IF f.line \in held THEN [err |-> "EBUSY", line |-> NoLine]
               ELSE f

\* the probe's loop keeping, on an error, the lines it acquired
RECURSIVE probe_get_descs_leak(_, _, _, _, _)
probe_get_descs_leak(table, i, n, held, descs) ==
    IF i >= n THEN [err |-> "OK", descs |-> descs]
    ELSE LET d == devm_gpiod_get_index(table, i, held)
         IN IF d.err # "OK" THEN [err |-> d.err, descs |-> descs]
            ELSE probe_get_descs_leak(table, i + 1, n, held \cup {d.line},
                                      Append(descs, d.line))

\* for (i = 0; i < n; i++) descs[i] = devm_gpiod_get_index(...): on the first
\* error the probe returns it and devres releases what was acquired
RECURSIVE probe_get_descs(_, _, _, _, _)
probe_get_descs(table, i, n, held, descs) ==
    IF i >= n THEN [err |-> "OK", descs |-> descs]
    ELSE LET d == devm_gpiod_get_index(table, i, held)
         IN IF d.err # "OK" THEN [err |-> d.err, descs |-> <<>>]
            ELSE probe_get_descs(table, i + 1, n, held \cup {d.line},
                                 Append(descs, d.line))

\* gpio_aggregator_probe(pdev): table is the lookup table registered for the
\* device's name (NoTable: none), held the lines requested by others
NoTable == <<>>
gpio_aggregator_probe(table, held) ==
    IF table = NoTable THEN [err |-> "ENOENT", descs |-> <<>>]
    ELSE LET c == gpiod_count(table)
         IN IF c.err # "OK" THEN [err |-> c.err, descs |-> <<>>]
            ELSE probe_get_descs(table, 0, c.n, held, <<>>)

(***************************************************************************)
(* The registry: the id map, the instances, the registered lookup tables,  *)
(* the platform devices, and the calls in progress.                        *)
(***************************************************************************)
\* instances that can be allocated at once (struct gpio_aggregator objects)
MaxAggr == 2

Aggrs == 1..MaxAggr
NULL == 0
Ids == 0..MaxAggr
NoId == -1
Threads == {1, 2}

VARIABLES
    gpio_aggregator_idr,    \* id -> instance (NULL: the id is free)
    gpio_aggregator_lock,   \* the thread holding the mutex, or NULL
    heap,                   \* the struct gpio_aggregator objects and their tables
    gpio_lookup_list,       \* the instances whose lookup table is registered
    pdevs,                  \* id -> the platform device "gpio-aggregator.<id>"
    call,                   \* thread -> the sysfs store call it is in
    freed_ids               \* history: the ids delete_device has removed

rvars == <<gpio_aggregator_idr, gpio_aggregator_lock, heap, gpio_lookup_list,
           pdevs, call, freed_ids>>

\* kzalloc() hands out zeroed memory; kfree() leaves the object free for reuse
UnusedAggr == [st |-> "free", args |-> <<>>, lookups |-> EmptyTable, pdev |-> NoId]
NoPdev == [reg |-> FALSE, bound |-> FALSE, descs |-> <<>>]

\* a delete_device token: the text before the id and the characters of the id
DRV_NAME == "gpio-aggregator"
DelPrefix == "gpio-aggregator."
NoDelTok == [pfx |-> "", rest |-> <<>>]
\* the successful new_device call that returned just before (history)
NoPrev == [id |-> NoId, ids0 |-> {}]
\* op, pc, args/tok (the buffer written), aggr, id, res: the call's locals.
\* History, read by no action: msg (what aggr_parse logged), stage (the step
\* that failed), probe (the probe's result), ids0/tabs0/devs0 (the ids, the
\* registered tables and the devices when the call began), ids_pre (the ids
\* when idr_alloc ran), published (whether the instance idr_remove returned
\* had its device stored), prev.
IdleCall == [op |-> "idle", pc |-> "idle", args |-> <<>>, tok |-> NoDelTok,
             aggr |-> NULL, id |-> NoId, res |-> "",
             msg |-> "", stage |-> "", probe |-> "",
             ids0 |-> {}, tabs0 |-> {}, devs0 |-> {}, ids_pre |-> {},
             published |-> FALSE, prev |-> NoPrev]

IdsOf(idr) == {i \in Ids : idr[i] # NULL}
RegisteredDevs == {i \in Ids : pdevs[i].reg}
\* the lines requested through the bound forwarders
Requested == UNION {{pdevs[i].descs[k] : k \in 1..Len(pdevs[i].descs)} : i \in Ids}

RegInit ==
    /\ gpio_aggregator_idr = [i \in Ids |-> NULL]
    /\ gpio_aggregator_lock = NULL
    /\ heap = [a \in Aggrs |-> UnusedAggr]
    /\ gpio_lookup_list = {}
    /\ pdevs = [i \in Ids |-> NoPdev]
    /\ call = [t \in Threads |-> IdleCall]
    /\ freed_ids = {}

(***************************************************************************)
(* Requests and delete tokens given to the sysfs attributes                *)
(***************************************************************************)
TokLed == <<W("led")>>
TokNoChip == <<W("nochip")>>
RegRequests ==
    { <<>>,                                         \* ""
      ScenarioRequest,                              \* "gpio0 1,3-4 gpio1 2"
      <<TokGpio0, <<N(3), Comma, N(3)>>>>,          \* "gpio0 3,3"
      <<TokGpio0, <<N(512)>>>>,                     \* "gpio0 512"
      <<TokNoChip, <<N(2)>>>>,                      \* "nochip 2"
      <<TokLed, TokGpio1>> }                        \* "led gpio1"

Digits == <<"0", "1", "2", "3", "4", "5", "6", "7", "8", "9">>
IsDigit(c) == \E d \in 1..10 : Digits[d] = c
DigitVal(c) == (CHOOSE d \in 1..10 : Digits[d] = c) - 1

DelTokens ==
    {[pfx |-> DelPrefix, rest |-> <<Digits[i + 1]>>] : i \in Ids}
    \cup { [pfx |-> DelPrefix, rest |-> <<"0", "\n">>],
           [pfx |-> DelPrefix, rest |-> <<"x">>],
           [pfx |-> DelPrefix, rest |-> <<>>],
           [pfx |-> "gpio.", rest |-> <<"0">>] }

\* str_has_prefix(buf, DRV_NAME ".")
str_has_prefix(tok) == tok.pfx = DelPrefix

\* lib/kstrtox.c: kstrtouint(s, 10, &id): an optional '+', decimal digits, an
\* optional final newline
RECURSIVE parse_digits(_, _)
parse_digits(cs, acc) ==
    IF cs = <<>> \/ ~IsDigit(Head(cs)) THEN [val |-> acc, rest |-> cs]
    ELSE parse_digits(Tail(cs), acc * 10 + DigitVal(Head(cs)))

kstrtouint(cs) ==
    LET s == IF cs # <<>> /\ Head(cs) = "+" THEN Tail(cs) ELSE cs
        d == parse_digits(s, 0)
        rest == IF d.rest # <<>> /\ Head(d.rest) = "\n" THEN Tail(d.rest) ELSE d.rest
    IN IF d.rest = s THEN [err |-> "EINVAL", val |-> 0]
       ELSE IF rest # <<>> THEN [err |-> "EINVAL", val |-> 0]
       ELSE [err |-> "OK", val |-> d.val]

\* lib/idr.c: idr_alloc(idr, ptr, start, 0, gfp): the lowest free id >= start
idr_alloc(idr, start) ==
    LET free == {i \in Ids : i >= start /\ idr[i] = NULL} IN
    IF free = {} THEN NoId
    ELSE CHOOSE i \in free : \A k \in free : i <= k

(***************************************************************************)
(* new_device_store, one action per step between the places where other    *)
(* threads can observe or change the shared state                          *)
(***************************************************************************)
SetCall(t, c) == call' = [call EXCEPT ![t] = c]
Goto(t, pc) == call' = [call EXCEPT ![t].pc = pc]
Ret(c, res) == [c EXCEPT !.pc = "ret", !.res = res]

\* lines 123-140: try_module_get, kzalloc of the instance and of its table
nds_alloc(t, buf) ==
    /\ call[t].op = "idle"
    /\ LET c0 == [IdleCall EXCEPT !.op = "new", !.args = buf,
                     !.ids0 = IdsOf(gpio_aggregator_idr),
                     !.tabs0 = gpio_lookup_list, !.devs0 = RegisteredDevs]
       IN \/ \E e \in {"ENOENT", "ENOMEM"} :
                /\ SetCall(t, Ret(c0, e))
                /\ UNCHANGED heap
          \/ \E a \in Aggrs :
                /\ heap[a].st = "free"
                /\ \A b \in Aggrs : heap[b].st = "free" => a <= b
                /\ heap' = [heap EXCEPT ![a] =
                               [UnusedAggr EXCEPT !.st = "live", !.args = buf]]
                /\ SetCall(t, [c0 EXCEPT !.pc = "nds_lock", !.aggr = a])
    /\ UNCHANGED <<gpio_aggregator_idr, gpio_aggregator_lock, gpio_lookup_list,
                   pdevs, freed_ids>>
    /\ UNCHANGED <<pvars, fvars, svars>>

\* line 142: mutex_lock(&gpio_aggregator_lock)
nds_lock(t) ==
    /\ call[t].pc = "nds_lock"
    /\ gpio_aggregator_lock = NULL
    /\ gpio_aggregator_lock' = t
    /\ Goto(t, "nds_idr_alloc")
    /\ UNCHANGED <<gpio_aggregator_idr, heap, gpio_lookup_list, pdevs, freed_ids>>
    /\ UNCHANGED <<pvars, fvars, svars>>

\* idr_alloc asked for ids from 1
nds_new_id_from1(idr) == idr_alloc(idr, 1)

\* line 143: idr_alloc(&gpio_aggregator_idr, aggr, 0, 0, GFP_KERNEL)
nds_new_id(idr) == idr_alloc(idr, 0)

\* line 143: id = idr_alloc(&gpio_aggregator_idr, aggr, 0, 0, GFP_KERNEL)
nds_idr_alloc(t) ==
    /\ call[t].pc = "nds_idr_alloc"
    /\ gpio_aggregator_lock = t
    /\ LET c == call[t]
           id == nds_new_id(gpio_aggregator_idr)
           pre == [c EXCEPT !.ids_pre = IdsOf(gpio_aggregator_idr), !.pc = "nds_unlock"]
       IN \/ /\ id # NoId
             /\ gpio_aggregator_idr' = [gpio_aggregator_idr EXCEPT ![id] = c.aggr]
             /\ SetCall(t, [pre EXCEPT !.id = id])
          \/ /\ UNCHANGED gpio_aggregator_idr
             /\ SetCall(t, [pre EXCEPT !.id = NoId, !.res = "ENOMEM"])
    /\ UNCHANGED <<gpio_aggregator_lock, heap, gpio_lookup_list, pdevs, freed_ids>>
    /\ UNCHANGED <<pvars, fvars, svars>>

\* lines 144-149: mutex_unlock; if (id < 0) goto free_table
nds_unlock(t) ==
    /\ call[t].pc = "nds_unlock"
    /\ gpio_aggregator_lock = t
    /\ gpio_aggregator_lock' = NULL
    /\ Goto(t, IF call[t].id = NoId THEN "nds_free_table" ELSE "nds_dev_id")
    /\ UNCHANGED <<gpio_aggregator_idr, heap, gpio_lookup_list, pdevs, freed_ids>>
    /\ UNCHANGED <<pvars, fvars, svars>>

\* lines 151-155: aggr->lookups->dev_id = kasprintf("%s.%d", DRV_NAME, id)
nds_dev_id(t) ==
    /\ call[t].pc = "nds_dev_id"
    /\ LET c == call[t] IN
       \/ /\ heap' = [heap EXCEPT ![c.aggr].lookups.dev_id = c.id]
          /\ Goto(t, "nds_parse")
       \/ /\ UNCHANGED heap
          /\ SetCall(t, [c EXCEPT !.pc = "nds_remove_idr", !.res = "ENOMEM"])
    /\ UNCHANGED <<gpio_aggregator_idr, gpio_aggregator_lock, gpio_lookup_list,
                   pdevs, freed_ids>>
    /\ UNCHANGED <<pvars, fvars, svars>>

\* lines 157-159: res = aggr_parse(aggr); if (res) goto free_dev_id
nds_parse(t) ==
    /\ call[t].pc = "nds_parse"
    /\ \E mem \in MemChoices :
          LET c == call[t]
              r == aggr_parse(heap[c.aggr].args, heap[c.aggr].lookups, mem)
          IN /\ heap' = [heap EXCEPT ![c.aggr].lookups = r.lookups]
             /\ IF r.err # "OK"
                   THEN SetCall(t, [c EXCEPT !.pc = "nds_free_dev_id", !.res = r.err,
                                             !.msg = r.msg, !.stage = "parse"])
                   ELSE Goto(t, "nds_add_table")
    /\ UNCHANGED <<gpio_aggregator_idr, gpio_aggregator_lock, gpio_lookup_list,
                   pdevs, freed_ids>>
    /\ UNCHANGED <<pvars, fvars, svars>>

\* line 161: gpiod_add_lookup_table(aggr->lookups)
nds_add_table(t) ==
    /\ call[t].pc = "nds_add_table"
    /\ gpio_lookup_list' = gpio_lookup_list \cup {call[t].aggr}
    /\ Goto(t, "nds_register")
    /\ UNCHANGED <<gpio_aggregator_idr, gpio_aggregator_lock, heap, pdevs, freed_ids>>
    /\ UNCHANGED <<pvars, fvars, svars>>

\* the lookup table registered under the device name "gpio-aggregator.<id>"
table_of_dev(id) ==
    LET hits == {a \in gpio_lookup_list : heap[a].lookups.dev_id = id} IN
    IF hits = {} THEN NoTable
    ELSE heap[CHOOSE a \in hits : \A b \in hits : a <= b].lookups.table

\* lines 163-167: pdev = platform_device_register_simple(DRV_NAME, id, NULL, 0).
\* The driver core probes the new device before the call returns; the result
\* of the probe is not the result of the registration.
nds_register(t) ==
    /\ call[t].pc = "nds_register"
    /\ LET c == call[t] IN
       \/ /\ ~pdevs[c.id].reg
          /\ LET pr == gpio_aggregator_probe(table_of_dev(c.id), Requested)
             IN pdevs' = [pdevs EXCEPT ![c.id] =
                             [reg |-> TRUE, bound |-> pr.err = "OK", descs |-> pr.descs]]
          /\ SetCall(t, [c EXCEPT !.pc = "nds_publish",
                  !.probe = gpio_aggregator_probe(table_of_dev(c.id), Requested).err])
       \/ /\ UNCHANGED pdevs
          /\ SetCall(t, [c EXCEPT !.pc = "nds_remove_table",
                                  !.res = IF pdevs[c.id].reg THEN "EEXIST" ELSE "ENOMEM"])
    /\ UNCHANGED <<gpio_aggregator_idr, gpio_aggregator_lock, heap, gpio_lookup_list,
                   freed_ids>>
    /\ UNCHANGED <<pvars, fvars, svars>>

\* lines 169-171: aggr->pdev = pdev; module_put; return count
nds_publish(t) ==
    /\ call[t].pc = "nds_publish"
    /\ heap' = [heap EXCEPT ![call[t].aggr].pdev = call[t].id]
    /\ SetCall(t, Ret(call[t], "count"))
    /\ UNCHANGED <<gpio_aggregator_idr, gpio_aggregator_lock, gpio_lookup_list,
                   pdevs, freed_ids>>
    /\ UNCHANGED <<pvars, fvars, svars>>

\* lines 173-174: remove_table: gpiod_remove_lookup_table(aggr->lookups)
nds_remove_table(t) ==
    /\ call[t].pc = "nds_remove_table"
    /\ gpio_lookup_list' = gpio_lookup_list \ {call[t].aggr}
    /\ Goto(t, "nds_free_dev_id")
    /\ UNCHANGED <<gpio_aggregator_idr, gpio_aggregator_lock, heap, pdevs, freed_ids>>
    /\ UNCHANGED <<pvars, fvars, svars>>

\* free_dev_id falling through to free_table, past remove_idr
nds_free_dev_id_skip(t) ==
    /\ call[t].pc = "nds_free_dev_id"
    /\ Goto(t, "nds_free_table")
    /\ UNCHANGED <<gpio_aggregator_idr, gpio_aggregator_lock, heap, gpio_lookup_list,
                   pdevs, freed_ids>>
    /\ UNCHANGED <<pvars, fvars, svars>>

\* lines 175-176: free_dev_id: kfree(aggr->lookups->dev_id)
nds_free_dev_id(t) ==
    /\ call[t].pc = "nds_free_dev_id"
    /\ Goto(t, "nds_remove_idr")
    /\ UNCHANGED <<gpio_aggregator_idr, gpio_aggregator_lock, heap, gpio_lookup_list,
                   pdevs, freed_ids>>
    /\ UNCHANGED <<pvars, fvars, svars>>

\* remove_idr without the idr_remove
nds_remove_idr_keep(t) ==
    /\ call[t].pc = "nds_remove_idr"
    /\ gpio_aggregator_lock = NULL
    /\ Goto(t, "nds_free_table")
    /\ UNCHANGED <<gpio_aggregator_idr, gpio_aggregator_lock, heap, gpio_lookup_list,
                   pdevs, freed_ids>>
    /\ UNCHANGED <<pvars, fvars, svars>>

\* lines 177-180: remove_idr: mutex_lock; idr_remove(&gpio_aggregator_idr, id);
\* mutex_unlock.  No other access to the idr can fall inside the critical
\* section, so it is one step.
nds_remove_idr(t) ==
    /\ call[t].pc = "nds_remove_idr"
    /\ gpio_aggregator_lock = NULL
    /\ gpio_aggregator_idr' = [gpio_aggregator_idr EXCEPT ![call[t].id] = NULL]
    /\ Goto(t, "nds_free_table")
    /\ UNCHANGED <<gpio_aggregator_lock, heap, gpio_lookup_list, pdevs, freed_ids>>
    /\ UNCHANGED <<pvars, fvars, svars>>

\* lines 181-187: free_table: kfree(aggr->lookups); free_ga: kfree(aggr);
\* put_module: module_put; return res
nds_free_table(t) ==
    /\ call[t].pc = "nds_free_table"
    /\ heap' = [heap EXCEPT ![call[t].aggr] = UnusedAggr]
    /\ SetCall(t, Ret(call[t], call[t].res))
    /\ UNCHANGED <<gpio_aggregator_idr, gpio_aggregator_lock, gpio_lookup_list,
                   pdevs, freed_ids>>
    /\ UNCHANGED <<pvars, fvars, svars>>

(***************************************************************************)
(* delete_device_store and gpio_aggregator_free                            *)
(***************************************************************************)
\* delete_device_store without the str_has_prefix check
dds_check_noprefix(t, buf) ==
    /\ call[t].op = "idle"
    /\ LET c0 == [IdleCall EXCEPT !.op = "del", !.tok = buf, !.prev = call[t].prev,
                     !.ids0 = IdsOf(gpio_aggregator_idr),
                     !.tabs0 = gpio_lookup_list, !.devs0 = RegisteredDevs]
           k == kstrtouint(buf.rest)
       IN IF k.err # "OK" THEN SetCall(t, Ret(c0, k.err))
          ELSE \/ SetCall(t, Ret(c0, "ENOENT"))
               \/ SetCall(t, [c0 EXCEPT !.pc = "dds_lock", !.id = k.val])
    /\ UNCHANGED <<gpio_aggregator_idr, gpio_aggregator_lock, heap, gpio_lookup_list,
                   pdevs, freed_ids>>
    /\ UNCHANGED <<pvars, fvars, svars>>

\* lines 208-216: the prefix check, kstrtouint, try_module_get
dds_check(t, buf) ==
    /\ call[t].op = "idle"
    /\ LET c0 == [IdleCall EXCEPT !.op = "del", !.tok = buf, !.prev = call[t].prev,
                     !.ids0 = IdsOf(gpio_aggregator_idr),
                     !.tabs0 = gpio_lookup_list, !.devs0 = RegisteredDevs]
           k == kstrtouint(buf.rest)
       IN IF ~str_has_prefix(buf) THEN SetCall(t, Ret(c0, "EINVAL"))
          ELSE IF k.err # "OK" THEN SetCall(t, Ret(c0, k.err))
          ELSE \/ SetCall(t, Ret(c0, "ENOENT"))
               \/ SetCall(t, [c0 EXCEPT !.pc = "dds_lock", !.id = k.val])
    /\ UNCHANGED <<gpio_aggregator_idr, gpio_aggregator_lock, heap, gpio_lookup_list,
                   pdevs, freed_ids>>
    /\ UNCHANGED <<pvars, fvars, svars>>

\* line 218: mutex_lock(&gpio_aggregator_lock)
dds_lock(t) ==
    /\ call[t].pc = "dds_lock"
    /\ gpio_aggregator_lock = NULL
    /\ gpio_aggregator_lock' = t
    /\ Goto(t, "dds_idr_remove")
    /\ UNCHANGED <<gpio_aggregator_idr, heap, gpio_lookup_list, pdevs, freed_ids>>
    /\ UNCHANGED <<pvars, fvars, svars>>

\* idr_find in place of idr_remove: the id stays in the map
dds_idr_remove_find(t) ==
    /\ call[t].pc = "dds_idr_remove"
    /\ gpio_aggregator_lock = t
    /\ LET id == call[t].id
           found == IF id \in Ids THEN gpio_aggregator_idr[id] ELSE NULL
       IN /\ UNCHANGED gpio_aggregator_idr
          /\ SetCall(t, [call[t] EXCEPT !.aggr = found, !.pc = "dds_unlock",
                  !.published = (found # NULL /\ heap[found].pdev # NoId)])
          /\ freed_ids' = IF found # NULL THEN freed_ids \cup {id} ELSE freed_ids
    /\ UNCHANGED <<gpio_aggregator_lock, heap, gpio_lookup_list, pdevs>>
    /\ UNCHANGED <<pvars, fvars, svars>>

\* line 219: aggr = idr_remove(&gpio_aggregator_idr, id)
dds_idr_remove(t) ==
    /\ call[t].pc = "dds_idr_remove"
    /\ gpio_aggregator_lock = t
    /\ LET id == call[t].id
           found == IF id \in Ids THEN gpio_aggregator_idr[id] ELSE NULL
       IN /\ gpio_aggregator_idr' =
                 IF id \in Ids THEN [gpio_aggregator_idr EXCEPT ![id] = NULL]
                 ELSE gpio_aggregator_idr
          /\ SetCall(t, [call[t] EXCEPT !.aggr = found, !.pc = "dds_unlock",
                  !.published = (found # NULL /\ heap[found].pdev # NoId)])
          /\ freed_ids' = IF found # NULL THEN freed_ids \cup {id} ELSE freed_ids
    /\ UNCHANGED <<gpio_aggregator_lock, heap, gpio_lookup_list, pdevs>>
    /\ UNCHANGED <<pvars, fvars, svars>>

\* lines 220-224: mutex_unlock; if (!aggr) return -ENOENT
dds_unlock(t) ==
    /\ call[t].pc = "dds_unlock"
    /\ gpio_aggregator_lock = t
    /\ gpio_aggregator_lock' = NULL
    /\ IF call[t].aggr = NULL THEN SetCall(t, Ret(call[t], "ENOENT"))
       ELSE Goto(t, "gaf_unregister")
    /\ UNCHANGED <<gpio_aggregator_idr, heap, gpio_lookup_list, pdevs, freed_ids>>
    /\ UNCHANGED <<pvars, fvars, svars>>

\* gpio_aggregator_free without the platform_device_unregister
gaf_unregister_skip(t) ==
    /\ call[t].pc = "gaf_unregister"
    /\ Goto(t, "gaf_remove_table")
    /\ UNCHANGED <<gpio_aggregator_idr, gpio_aggregator_lock, heap, gpio_lookup_list,
                   pdevs, freed_ids>>
    /\ UNCHANGED <<pvars, fvars, svars>>

\* line 194: platform_device_unregister(aggr->pdev): nothing for a NULL pdev;
\* unbinding the driver releases the lines the probe requested
gaf_unregister(t) ==
    /\ call[t].pc = "gaf_unregister"
    /\ LET pd == heap[call[t].aggr].pdev IN
       pdevs' = IF pd = NoId THEN pdevs ELSE [pdevs EXCEPT ![pd] = NoPdev]
    /\ Goto(t, "gaf_remove_table")
    /\ UNCHANGED <<gpio_aggregator_idr, gpio_aggregator_lock, heap, gpio_lookup_list,
                   freed_ids>>
    /\ UNCHANGED <<pvars, fvars, svars>>

\* line 195: gpiod_remove_lookup_table(aggr->lookups)
gaf_remove_table(t) ==
    /\ call[t].pc = "gaf_remove_table"
    /\ gpio_lookup_list' = gpio_lookup_list \ {call[t].aggr}
    /\ Goto(t, "gaf_kfree")
    /\ UNCHANGED <<gpio_aggregator_idr, gpio_aggregator_lock, heap, pdevs, freed_ids>>
    /\ UNCHANGED <<pvars, fvars, svars>>

\* lines 196-198 and 227-228: kfree of the dev_id, the table and the instance;
\* module_put; return count
gaf_kfree(t) ==
    /\ call[t].pc = "gaf_kfree"
    /\ heap' = [heap EXCEPT ![call[t].aggr] = UnusedAggr]
    /\ SetCall(t, Ret(call[t], "count"))
    /\ UNCHANGED <<gpio_aggregator_idr, gpio_aggregator_lock, gpio_lookup_list,
                   pdevs, freed_ids>>
    /\ UNCHANGED <<pvars, fvars, svars>>

(***************************************************************************)
(* gpio_aggregator_remove_all, run by the module's exit.  The module       *)
(* reference the store calls hold keeps it from running beside them; a     *)
(* module loaded again starts from the state the teardown leaves.          *)
(***************************************************************************)
\* line 247: mutex_lock(&gpio_aggregator_lock); call[t].id is the place of
\* idr_for_each in the map
gra_lock(t) ==
    /\ call[t].op = "idle"
    /\ gpio_aggregator_lock = NULL
    /\ gpio_aggregator_lock' = t
    /\ SetCall(t, [IdleCall EXCEPT !.op = "exit", !.pc = "gra_for_each",
                      !.ids0 = IdsOf(gpio_aggregator_idr),
                      !.tabs0 = gpio_lookup_list, !.devs0 = RegisteredDevs])
    /\ UNCHANGED <<gpio_aggregator_idr, heap, gpio_lookup_list, pdevs, freed_ids>>
    /\ UNCHANGED <<pvars, fvars, svars>>

\* the ids idr_for_each has still to visit
gra_to_visit(t) == {i \in IdsOf(gpio_aggregator_idr) : i > call[t].id}

\* lines 239-243, 248: idr_for_each calls gpio_aggregator_idr_remove, that is
\* gpio_aggregator_free(p), on the next id, in ascending order; the id stays
\* in the map
gra_idr_remove(t) ==
    /\ call[t].pc = "gra_for_each"
    /\ gra_to_visit(t) # {}
    /\ LET id == CHOOSE i \in gra_to_visit(t) : \A k \in gra_to_visit(t) : i <= k
           p == gpio_aggregator_idr[id]
           pd == heap[p].pdev
       IN /\ pdevs' = IF pd = NoId THEN pdevs ELSE [pdevs EXCEPT ![pd] = NoPdev]
          /\ gpio_lookup_list' = gpio_lookup_list \ {p}
          /\ heap' = [heap EXCEPT ![p] = UnusedAggr]
          /\ SetCall(t, [call[t] EXCEPT !.id = id])
    /\ UNCHANGED <<gpio_aggregator_idr, gpio_aggregator_lock, freed_ids>>
    /\ UNCHANGED <<pvars, fvars, svars>>

\* remove_all leaving the map as idr_for_each left it
gra_idr_destroy_keep(t) ==
    /\ call[t].pc = "gra_for_each"
    /\ gra_to_visit(t) = {}
    /\ gpio_aggregator_lock' = NULL
    /\ SetCall(t, Ret(call[t], "void"))
    /\ UNCHANGED <<gpio_aggregator_idr, heap, gpio_lookup_list, pdevs, freed_ids>>
    /\ UNCHANGED <<pvars, fvars, svars>>

\* lines 249-250: idr_destroy(&gpio_aggregator_idr); mutex_unlock
gra_idr_destroy(t) ==
    /\ call[t].pc = "gra_for_each"
    /\ gra_to_visit(t) = {}
    /\ gpio_aggregator_idr' = [i \in Ids |-> NULL]
    /\ gpio_aggregator_lock' = NULL
    /\ SetCall(t, Ret(call[t], "void"))
    /\ UNCHANGED <<heap, gpio_lookup_list, pdevs, freed_ids>>
    /\ UNCHANGED <<pvars, fvars, svars>>

\* the store call has returned to the writer of the attribute
Return(t) ==
    /\ call[t].pc = "ret"
    /\ SetCall(t, [IdleCall EXCEPT !.prev =
                      IF call[t].op = "new" /\ call[t].res = "count"
                      THEN [id |-> call[t].id, ids0 |-> call[t].ids0]
                      ELSE NoPrev])
    /\ UNCHANGED <<gpio_aggregator_idr, gpio_aggregator_lock, heap, gpio_lookup_list,
                   pdevs, freed_ids>>
    /\ UNCHANGED <<pvars, fvars, svars>>

ParseInit ==
    /\ p_pc = "start"
    /\ p_args \in ParseRequests
    /\ p_mem \in MemChoices
    /\ p_out = NoOut

ParseRun ==
    /\ p_pc = "start"
    /\ p_out' = aggr_parse(p_args, EmptyTable, p_mem)
    /\ p_pc' = "done"
    /\ UNCHANGED <<p_args, p_mem>>
    /\ UNCHANGED rvars
    /\ UNCHANGED fvars
    /\ UNCHANGED svars

(***************************************************************************)
(* The callers of the forwarder and its state before it is built           *)
(***************************************************************************)
\* op, pc, offset / mask / bits (the arguments; bits is also the result of a
\* get), j (the local j), res.  History: bits0 (bits at the call), lk (the
\* lock taken), seen (the values of the lines when the provider read them)
\* value (the argument of set).  History: prim (the provider's function
\* called), wrote (the handle given to the provider's write), wait (the wait
\* performed), cfg (the configuration the provider received), timing (the
\* position's delays when set ran).  descs, features, ptr: the arguments of
\* gpio_fwd_create and its local fwd
IdleF == [op |-> "idle", pc |-> "idle", offset |-> 0, mask |-> {}, bits |-> {},
          j |-> 0, res |-> "", bits0 |-> {}, lk |-> "none",
          seen |-> [l \in FwdLines |-> 0],
          value |-> 0, prim |-> "none", wrote |-> NoDesc, wait |-> NoWait,
          cfg |-> NoCfg,
          descs |-> [o \in Positions |-> NoDesc], features |-> 0, ptr |-> "none",
          timing |-> ZeroTiming]

\* stage 0: nothing; 1: a get of mask read vals; 2: then a set of mask wrote
\* vals; 3: then a get of mask read got
NoRt == [stage |-> 0, mask |-> {}, vals |-> {}, got |-> {}]

rt_on_get(rt, error, mask, v) ==
    IF error # "OK" THEN NoRt
    ELSE IF rt.stage = 2 /\ rt.mask = mask THEN [rt EXCEPT !.stage = 3, !.got = v]
    ELSE [stage |-> 1, mask |-> mask, vals |-> v, got |-> {}]

rt_on_set(rt, mask, bits) ==
    IF rt.stage = 1 /\ rt.mask = mask /\ bits \cap mask = rt.vals
    THEN [rt EXCEPT !.stage = 2]
    ELSE NoRt

FwdOff ==
    /\ fwd = NoFwd
    /\ fwd_lock = NULL
    /\ line_val = [l \in FwdLines |-> 0]
    /\ fcall = [t \in FwdThreads |-> IdleF]
    /\ fwd_rt = NoRt

vars == <<gpio_aggregator_idr, gpio_aggregator_lock, heap, gpio_lookup_list,
          pdevs, call, freed_ids, p_pc, p_args, p_mem, p_out,
          fwd, fwd_lock, line_val, fcall, fwd_rt, scratch>>

\* the parser is not run on its own while the registry is exercised
ParseIdle == p_pc = "off" /\ p_args = <<>> /\ p_mem = Unlimited /\ p_out = NoOut

Step(t) ==
    \/ nds_lock(t) \/ nds_idr_alloc(t) \/ nds_unlock(t) \/ nds_dev_id(t)
    \/ nds_parse(t) \/ nds_add_table(t) \/ nds_register(t) \/ nds_publish(t)
    \/ nds_remove_table(t) \/ nds_free_dev_id(t) \/ nds_remove_idr(t)
    \/ nds_free_table(t)
    \/ dds_lock(t) \/ dds_idr_remove(t) \/ dds_unlock(t)
    \/ gaf_unregister(t) \/ gaf_remove_table(t) \/ gaf_kfree(t)
    \/ Return(t)

AllIdle == \A u \in Threads : call[u].op = "idle"
FirstThread(t) == \A u \in Threads : t <= u

\* One writer at a time: a store call begins only when no other is in progress.
Next ==
    \/ \E buf \in RegRequests : \E t \in Threads :
          AllIdle /\ FirstThread(t) /\ nds_alloc(t, buf)
    \/ \E buf \in DelTokens : \E t \in Threads :
          AllIdle /\ FirstThread(t) /\ dds_check(t, buf)
    \/ \E t \in Threads : AllIdle /\ FirstThread(t) /\ gra_lock(t)
    \/ \E t \in Threads : gra_idr_remove(t)
    \/ \E t \in Threads : gra_idr_destroy(t)
    \/ \E t \in Threads : Step(t)

Init == RegInit /\ ParseIdle /\ FwdOff /\ ScratchOff
Spec == Init /\ [][Next]_vars

(***************************************************************************)
(* Concurrent writers: sysfs lets two store calls run at once.  A step     *)
(* that dereferences an instance another thread has freed, or unlinks a    *)
(* table that is on no list, is undefined: it either goes on with whatever *)
(* the memory holds now, or the thread dies in an oops (keeping the mutex  *)
(* if it holds it).  The scenario: new_device calls that start on an empty *)
(* registry, until a delete_device call has removed an instance, while     *)
(* another thread writes delete_device at any time.                        *)
(***************************************************************************)
RaceRequests == {<<>>, ScenarioRequest, <<TokGpio0, <<N(3), Comma, N(3)>>>>}

DerefPcs == {"nds_dev_id", "nds_parse", "nds_add_table", "nds_publish",
             "nds_remove_table", "nds_free_dev_id", "nds_free_table",
             "gaf_unregister", "gaf_remove_table", "gaf_kfree"}
UnlinkPcs == {"nds_remove_table", "gaf_remove_table"}

UbPending(t) ==
    \/ call[t].pc \in DerefPcs /\ heap[call[t].aggr].st = "free"
    \/ call[t].pc \in UnlinkPcs /\ call[t].aggr \notin gpio_lookup_list

oops(t) ==
    /\ UbPending(t)
    /\ Goto(t, "oops")
    /\ UNCHANGED <<gpio_aggregator_idr, gpio_aggregator_lock, heap, gpio_lookup_list,
                   pdevs, freed_ids>>
    /\ UNCHANGED <<pvars, fvars, svars>>

RaceStart == IdsOf(gpio_aggregator_idr) = {} /\ freed_ids = {}

NextRace ==
    \/ \E buf \in RaceRequests : \E t \in Threads :
          RaceStart /\ FirstThread(t) /\ nds_alloc(t, buf)
    \/ \E buf \in DelTokens : \E t \in Threads :
          ~FirstThread(t) /\ dds_check(t, buf)
    \/ \E t \in Threads : Step(t)
    \/ \E t \in Threads : oops(t)

SpecRace == Init /\ [][NextRace]_vars

InitParse == ParseInit /\ RegInit /\ FwdOff /\ ScratchOff
SpecParse == InitParse /\ [][ParseRun]_vars

(***************************************************************************)
(* The forwarder's operations.  The driver that owns the forwarder builds  *)
(* it with devm_gpio_fwd_alloc, gpio_fwd_add_gpio_desc and                 *)
(* gpio_fwd_register, and may bind more handles later; gpiolib calls the   *)
(* chip's callbacks once the chip is registered, with positions below      *)
(* chip.ngpio, and the batched ones with masks of requested positions.     *)
(***************************************************************************)
\* the handles and offsets given to gpio_fwd_add_gpio_desc
AddInputs ==
    {<<PlainLine(o), o>> : o \in Positions}
    \cup {<<SleepLine, 0>>, <<SleepLine, FwdNgpio>>, <<PlainLine(0), FwdNgpio + 1>>}

Bound(f) == {o \in Positions : f.descs[o] # NoDesc}
GetInputs(f) == (SUBSET Bound(f)) \X {{}, Positions}
SetInputs(f) == {<<m, b>> \in (SUBSET Bound(f)) \X (SUBSET Positions) : b \subseteq m}
RaceInputs(f) == {Bound(f)} \X {{}, Bound(f)}

\* lines 609, 494-527
fwd_alloc ==
    /\ fwd.st = "none"
    /\ fwd' = devm_gpio_fwd_alloc(FwdNgpio)
    /\ UNCHANGED <<fwd_lock, line_val, fcall, fwd_rt>>
    /\ UNCHANGED <<pvars, rvars, svars>>

\* what a read of the word after descs[] can give: what was last stored
\* there, or else whatever the memory holds
PastReads(f) == IF f.past # NoDesc THEN {f.past} ELSE {NoDesc, Garbage}

\* lines 530-554
fwd_add_gpio_desc(desc, offset) ==
    /\ fwd.st \in {"alloc", "registered"}
    /\ \E rp \in PastReads(fwd) :
          fwd' = gpio_fwd_add_gpio_desc(fwd, desc, offset, rp).fwd
    /\ UNCHANGED <<fwd_lock, line_val, fcall, fwd_rt>>
    /\ UNCHANGED <<pvars, rvars, svars>>

\* lines 557-582
fwd_register ==
    /\ fwd.st = "alloc"
    /\ \E error \in {"OK", "ENOMEM"} : fwd' = gpio_fwd_register(fwd, error)
    /\ UNCHANGED <<fwd_lock, line_val, fcall, fwd_rt>>
    /\ UNCHANGED <<pvars, rvars, svars>>

SetF(t, c) == fcall' = [fcall EXCEPT ![t] = c]

\* lines 263-268: chip->request
f_request(t, offset) ==
    /\ fwd.st = "registered"
    /\ fcall[t].op = "idle"
    /\ SetF(t, [IdleF EXCEPT !.op = "request", !.pc = "ret", !.offset = offset,
                             !.res = gpio_fwd_request(fwd, offset)])
    /\ UNCHANGED <<fwd, fwd_lock, line_val, fwd_rt>>
    /\ UNCHANGED <<pvars, rvars, svars>>

\* lines 331-336: chip->get_multiple(chip, mask, bits)
fgm_call(t, mask, bits) ==
    /\ fwd.st = "registered"
    /\ fcall[t].op = "idle"
    /\ SetF(t, [IdleF EXCEPT !.op = "get", !.pc = "lock", !.mask = mask,
                             !.bits = bits, !.bits0 = bits])
    /\ UNCHANGED <<fwd, fwd_lock, line_val, fwd_rt>>
    /\ UNCHANGED <<pvars, rvars, svars>>

\* lines 405-409: chip->set_multiple(chip, mask, bits)
fsm_call(t, mask, bits) ==
    /\ fwd.st = "registered"
    /\ fcall[t].op = "idle"
    /\ SetF(t, [IdleF EXCEPT !.op = "set", !.pc = "lock", !.mask = mask,
                             !.bits = bits, !.bits0 = bits])
    /\ UNCHANGED <<fwd, fwd_lock, line_val, fwd_rt>>
    /\ UNCHANGED <<pvars, rvars, svars>>

\* the lock taken without waiting for its holder
f_lock_nowait(t) ==
    /\ fcall[t].pc = "lock"
    /\ fwd_lock' = t
    /\ SetF(t, [fcall[t] EXCEPT !.pc = "compact",
                   !.lk = IF fwd.can_sleep THEN "mutex" ELSE "spin"])
    /\ UNCHANGED <<fwd, line_val, fwd_rt>>
    /\ UNCHANGED <<pvars, rvars, svars>>

\* lines 338-339, 343 and 411-412, 416: if (chip->can_sleep)
\* mutex_lock(&fwd->mlock); else spin_lock_irqsave(&fwd->slock, flags)
f_lock(t) ==
    /\ fcall[t].pc = "lock"
    /\ fwd_lock = NULL
    /\ fwd_lock' = t
    /\ SetF(t, [fcall[t] EXCEPT !.pc = "compact",
                   !.lk = IF fwd.can_sleep THEN "mutex" ELSE "spin"])
    /\ UNCHANGED <<fwd, line_val, fwd_rt>>
    /\ UNCHANGED <<pvars, rvars, svars>>

\* the first j places of tmp's handles overwritten by the compacted handles
tmp_store(old, cd) ==
    [k \in Positions |-> IF k < Len(cd) THEN cd[k + 1] ELSE old[k]]
\* the j handles given to the provider
tmp_load(f, j) == [k \in 1..j |-> f.tmp_descs[k - 1]]

\* lines 313-315: bitmap_clear(values, 0, ngpio); the compaction of the handles
fgm_compact(t) ==
    /\ fcall[t].op = "get" /\ fcall[t].pc = "compact"
    /\ LET cd == fwd_compact(fwd, fcall[t].mask, 0) IN
       /\ fwd' = [fwd EXCEPT !.tmp_values = {},
                             !.tmp_descs = tmp_store(fwd.tmp_descs, cd)]
       /\ SetF(t, [fcall[t] EXCEPT !.pc = "issue", !.j = Len(cd)])
    /\ UNCHANGED <<fwd_lock, line_val, fwd_rt>>
    /\ UNCHANGED <<pvars, rvars, svars>>

\* lines 317-328: gpiod_get_array_value[_cansleep]; on an error return it;
\* else the expansion into bits
fgm_issue(t) ==
    /\ fcall[t].op = "get" /\ fcall[t].pc = "issue"
    /\ \E error \in {"OK", "EIO"} :
          LET c == fcall[t]
              values == IF error = "OK"
                        THEN gpiod_get_array_value(tmp_load(fwd, c.j), line_val)
                        ELSE fwd.tmp_values
              bits == fgm_result(error, c.mask, c.bits, values)
          IN /\ fwd' = [fwd EXCEPT !.tmp_values = values]
             /\ SetF(t, [c EXCEPT !.pc = "unlock", !.bits = bits, !.res = error,
                                  !.seen = line_val,
                                  !.prim = IF fwd.can_sleep
                                           THEN "gpiod_get_array_value_cansleep"
                                           ELSE "gpiod_get_array_value"])
             /\ fwd_rt' = rt_on_get(fwd_rt, error, c.mask, bits \cap c.mask)
    /\ UNCHANGED <<fwd_lock, line_val>>
    /\ UNCHANGED <<pvars, rvars, svars>>

\* lines 394-397: the compaction of the values and of the handles
fsm_compact(t) ==
    /\ fcall[t].op = "set" /\ fcall[t].pc = "compact"
    /\ LET cd == fwd_compact(fwd, fcall[t].mask, 0)
           low == 0..(Len(cd) - 1)
       IN /\ fwd' = [fwd EXCEPT
                        !.tmp_values = (@ \ low) \cup fsm_values(fcall[t].mask, fcall[t].bits),
                        !.tmp_descs = tmp_store(fwd.tmp_descs, cd)]
          /\ SetF(t, [fcall[t] EXCEPT !.pc = "issue", !.j = Len(cd)])
    /\ UNCHANGED <<fwd_lock, line_val, fwd_rt>>
    /\ UNCHANGED <<pvars, rvars, svars>>

\* lines 399-402: gpiod_set_array_value[_cansleep](j, descs, NULL, values)
fsm_issue(t) ==
    /\ fcall[t].op = "set" /\ fcall[t].pc = "issue"
    /\ line_val' = gpiod_set_array_value(tmp_load(fwd, fcall[t].j), fwd.tmp_values,
                                         line_val)
    /\ SetF(t, [fcall[t] EXCEPT !.pc = "unlock", !.res = "void",
                   !.prim = IF fwd.can_sleep THEN "gpiod_set_array_value_cansleep"
                            ELSE "gpiod_set_array_value"])
    /\ fwd_rt' = rt_on_set(fwd_rt, fcall[t].mask, fcall[t].bits)
    /\ UNCHANGED <<fwd, fwd_lock>>
    /\ UNCHANGED <<pvars, rvars, svars>>

\* the lock kept when the provider has failed
f_unlock_onerror(t) ==
    /\ fcall[t].pc = "unlock"
    /\ fwd_lock' = IF fcall[t].res = "EIO" THEN fwd_lock ELSE NULL
    /\ SetF(t, [fcall[t] EXCEPT !.pc = "ret"])
    /\ UNCHANGED <<fwd, line_val, fwd_rt>>
    /\ UNCHANGED <<pvars, rvars, svars>>

\* lines 341, 345, 348 and 414, 418: the unlock and the return
f_unlock(t) ==
    /\ fcall[t].pc = "unlock"
    /\ fwd_lock' = NULL
    /\ SetF(t, [fcall[t] EXCEPT !.pc = "ret"])
    /\ UNCHANGED <<fwd, line_val, fwd_rt>>
    /\ UNCHANGED <<pvars, rvars, svars>>

\* the callback has returned to gpiolib
f_return(t) ==
    /\ fcall[t].pc = "ret"
    /\ SetF(t, IdleF)
    /\ UNCHANGED <<fwd, fwd_lock, line_val, fwd_rt>>
    /\ UNCHANGED <<pvars, rvars, svars>>

\* lines 296-302: chip->get(chip, offset); error is what the provider's read
\* of a line gives
fs_get(t, offset) ==
    /\ fwd.st = "registered"
    /\ fcall[t].op = "idle"
    /\ \E error \in {"OK", "EIO"} :
          LET r == gpio_fwd_get(fwd, offset, line_val, error) IN
          SetF(t, [IdleF EXCEPT !.op = "get_value", !.pc = "ret", !.offset = offset,
                                !.res = r.res, !.prim = r.prim, !.seen = line_val])
    /\ UNCHANGED <<fwd, fwd_lock, line_val, fwd_rt>>
    /\ UNCHANGED <<pvars, rvars, svars>>

\* lines 373-384: chip->set(chip, offset, value)
fs_set(t, offset, value) ==
    /\ fwd.st = "registered"
    /\ fcall[t].op = "idle"
    /\ LET r == gpio_fwd_set(fwd, offset, value, line_val) IN
       /\ line_val' = r.lv
       /\ SetF(t, [IdleF EXCEPT !.op = "set_value", !.pc = "ret", !.offset = offset,
                                !.value = value, !.res = "void", !.prim = r.prim,
                                !.wrote = r.wrote, !.wait = r.wait,
                                !.seen = line_val,
                                !.timing = fwd.delay_timings[offset]])
    /\ UNCHANGED <<fwd, fwd_lock, fwd_rt>>
    /\ UNCHANGED <<pvars, rvars, svars>>

\* a consumer's set_config on a line of the composite device; answer is what
\* the provider's chip answers
fs_set_config(t, offset, config) ==
    /\ fwd.st = "registered"
    /\ fcall[t].op = "idle"
    /\ \E answer \in {"0", "ENOTSUPP"} :
          LET r == chip_set_config(fwd, offset, config, answer) IN
          SetF(t, [IdleF EXCEPT !.op = "set_config", !.pc = "ret", !.offset = offset,
                                !.value = config, !.res = r.res, !.wrote = r.wrote,
                                !.cfg = r.cfg])
    /\ UNCHANGED <<fwd, fwd_lock, line_val, fwd_rt>>
    /\ UNCHANGED <<pvars, rvars, svars>>

\* lines 449-469: chip->of_xlate(chip, gpiospec, flags), called when a
\* consumer's device-tree reference to a line of the chip is resolved
fwd_delay_of_xlate(args_count, line, up, down) ==
    /\ fwd.st = "registered"
    /\ "of_xlate" \in fwd.callbacks
    /\ fwd' = gpio_fwd_delay_of_xlate(fwd, args_count, line, up, down).fwd
    /\ UNCHANGED <<fwd_lock, line_val, fcall, fwd_rt>>
    /\ UNCHANGED <<pvars, rvars, svars>>

FStep(t) ==
    \/ f_lock(t) \/ fgm_compact(t) \/ fgm_issue(t)
    \/ fsm_compact(t) \/ fsm_issue(t) \/ f_unlock(t) \/ f_return(t)

FwdFirst(t) == \A u \in FwdThreads : t <= u

\* The owner builds the forwarder and binds handles; one caller of the chip
\* at a time, the batched operations on all the bound positions.
NextFwd ==
    \/ fwd_alloc
    \/ \E a \in AddInputs : fwd_add_gpio_desc(a[1], a[2])
    \/ fwd_register
    \/ \E t \in FwdThreads : \E o \in Positions : FwdFirst(t) /\ f_request(t, o)
    \/ \E t \in FwdThreads : \E in \in RaceInputs(fwd) :
          FwdFirst(t) /\ fgm_call(t, in[1], in[2])
    \/ \E t \in FwdThreads : \E in \in RaceInputs(fwd) :
          FwdFirst(t) /\ fsm_call(t, in[1], in[2])
    \/ \E t \in FwdThreads : FStep(t)

SpecFwd == Init /\ [][NextFwd]_vars

(***************************************************************************)
(* The aggregator's own forwarder: gpio_fwd_create, called by the probe,   *)
(* then the chip's callbacks.  A use of ERR_PTR(-ENOMEM) as a forwarder is *)
(* undefined: the caller dies in an oops, or the function reads whatever   *)
(* is at that address and returns an error.                                *)
(***************************************************************************)
\* the handles the probe passes: the plain lines, or the sleeping line at
\* position 0, or the plain lines in the reverse order (an active-low output
\* at position 0)
CreateDescs ==
    {[o \in Positions |-> IF o = 0 THEN d0 ELSE PlainLine(o)] :
        d0 \in {PlainLine(0), SleepLine}}
    \cup {[o \in Positions |-> PlainLine(FwdNgpio - 1 - o)]}

\* lines 600-609: gpio_fwd_create(dev, ngpios, descs, features) and its call
\* of devm_gpio_fwd_alloc, whose allocations (lines 500-507) may fail
fc_call(t, descs, features) ==
    /\ fwd.st = "none"
    /\ fcall[t].op = "idle"
    /\ \E error \in {"OK", "ENOMEM"} :
          /\ fwd' = IF error = "OK" THEN devm_gpio_fwd_alloc(FwdNgpio) ELSE fwd
          /\ SetF(t, [IdleF EXCEPT !.op = "create", !.pc = "fc_check",
                                   !.descs = descs, !.features = features,
                                   !.ptr = IF error = "OK" THEN "fwd" ELSE ErrPtr])
    /\ UNCHANGED <<fwd_lock, line_val, fwd_rt>>
    /\ UNCHANGED <<pvars, rvars, svars>>

\* lines 610-611: if (!fwd) return ERR_PTR(-ENOMEM)
fc_check(t) ==
    /\ fcall[t].op = "create" /\ fcall[t].pc = "fc_check"
    /\ IF fcall[t].ptr = "NULL"
       THEN SetF(t, [fcall[t] EXCEPT !.pc = "ret", !.res = "ENOMEM"])
       ELSE SetF(t, [fcall[t] EXCEPT !.pc = "fc_add", !.j = 0])
    /\ UNCHANGED <<fwd, fwd_lock, line_val, fwd_rt>>
    /\ UNCHANGED <<pvars, rvars, svars>>

\* lines 613-619: one turn of the loop, error = gpio_fwd_add_gpio_desc(fwd,
\* descs[i], i), and the test of features after it
fc_add(t) ==
    /\ fcall[t].op = "create" /\ fcall[t].pc = "fc_add"
    /\ LET c == fcall[t] IN
       IF c.ptr # "fwd"
       THEN /\ \/ SetF(t, [c EXCEPT !.pc = "oops"])
               \/ \E e \in {"EINVAL", "EEXIST"} :
                     SetF(t, [c EXCEPT !.pc = "ret", !.res = e])
            /\ fwd' = fwd
       ELSE IF c.j < fwd.ngpio
       THEN LET r == gpio_fwd_add_gpio_desc(fwd, c.descs[c.j], c.j, NoDesc) IN
            /\ fwd' = r.fwd
            /\ IF r.err # "OK"
               THEN SetF(t, [c EXCEPT !.pc = "ret", !.res = r.err])
               ELSE SetF(t, [c EXCEPT !.j = c.j + 1])
       ELSE /\ fwd' = fwd
            /\ SetF(t, [c EXCEPT !.pc = IF c.features = FWD_FEATURE_DELAY
                                        THEN "fc_delay" ELSE "fc_register"])
    /\ UNCHANGED <<fwd_lock, line_val, fwd_rt>>
    /\ UNCHANGED <<pvars, rvars, svars>>

\* lines 619-623: error = gpio_fwd_setup_delay_line(fwd)
fc_delay(t) ==
    /\ fcall[t].op = "create" /\ fcall[t].pc = "fc_delay"
    /\ \E error \in {"OK", "ENOMEM"} :
          LET r == gpio_fwd_setup_delay_line(fwd, error) IN
          /\ fwd' = r.fwd
          /\ IF r.err # "OK"
             THEN SetF(t, [fcall[t] EXCEPT !.pc = "ret", !.res = r.err])
             ELSE SetF(t, [fcall[t] EXCEPT !.pc = "fc_register"])
    /\ UNCHANGED <<fwd_lock, line_val, fwd_rt>>
    /\ UNCHANGED <<pvars, rvars, svars>>

\* lines 625-629: error = gpio_fwd_register(fwd); return fwd or the error
fc_register(t) ==
    /\ fcall[t].op = "create" /\ fcall[t].pc = "fc_register"
    /\ \E error \in {"OK", "ENOMEM"} :
          /\ fwd' = gpio_fwd_register(fwd, error)
          /\ SetF(t, [fcall[t] EXCEPT !.pc = "ret",
                         !.res = IF error = "OK" THEN "fwd" ELSE error])
    /\ UNCHANGED <<fwd_lock, line_val, fwd_rt>>
    /\ UNCHANGED <<pvars, rvars, svars>>

\* the device-tree references to the lines of the chip: the cells of a
\* reference, its line and its two delays
XlateInputs ==
    {<<DelayCells, 0, 0, RampUs>>, <<DelayCells, 0, RampUs, 0>>,
     <<DelayCells, FwdNgpio - 1, RampUs, 0>>, <<DelayCells, FwdNgpio - 1, 0, 0>>,
     <<DelayCells, FwdNgpio, RampUs, RampUs>>, <<DelayCells - 1, 0, RampUs, RampUs>>}

\* The probe creates the forwarder; then one caller of the chip at a time.
NextFwdDev ==
    \/ \E t \in FwdThreads : \E d \in CreateDescs :
          \E f \in {0, FWD_FEATURE_DELAY} : FwdFirst(t) /\ fc_call(t, d, f)
    \/ \E t \in FwdThreads : fc_check(t)
    \/ \E t \in FwdThreads : fc_add(t)
    \/ \E t \in FwdThreads : fc_delay(t)
    \/ \E t \in FwdThreads : fc_register(t)
    \/ \E x \in XlateInputs : fwd_delay_of_xlate(x[1], x[2], x[3], x[4])
    \/ \E t \in FwdThreads : \E o \in Positions : FwdFirst(t) /\ fs_get(t, o)
    \/ \E t \in FwdThreads : \E o \in Positions : \E v \in {0, 1} :
          FwdFirst(t) /\ fs_set(t, o, v)
    \/ \E t \in FwdThreads : \E o \in Positions : \E cfg \in Configs :
          FwdFirst(t) /\ fs_set_config(t, o, cfg)
    \/ \E t \in FwdThreads : \E in \in RaceInputs(fwd) :
          FwdFirst(t) /\ fgm_call(t, in[1], in[2])
    \/ \E t \in FwdThreads : \E in \in RaceInputs(fwd) :
          FwdFirst(t) /\ fsm_call(t, in[1], in[2])
    \/ \E t \in FwdThreads : FStep(t)

SpecFwdDev == Init /\ [][NextFwdDev]_vars

\* A driver that builds a forwarder through the exported functions, binding
\* some handles after the registration, and calls the exported single-line
\* operations from its own chip's callbacks.
NextFwdApi ==
    \/ fwd_alloc
    \/ \E a \in AddInputs : fwd_add_gpio_desc(a[1], a[2])
    \/ fwd_register
    \/ \E t \in FwdThreads : \E o \in Positions : FwdFirst(t) /\ fs_get(t, o)
    \/ \E t \in FwdThreads : \E o \in Positions : \E v \in {0, 1} :
          FwdFirst(t) /\ fs_set(t, o, v)
    \/ \E t \in FwdThreads : f_return(t)

SpecFwdApi == Init /\ [][NextFwdApi]_vars

\* gpio_fwd_create's loop (lines 613-617) binding descs[i] at i, from i on
RECURSIVE fwd_add_all(_, _, _)
fwd_add_all(f, descs, i) ==
    IF i >= f.ngpio THEN f
    ELSE fwd_add_all(gpio_fwd_add_gpio_desc(f, descs[i], i, NoDesc).fwd, descs, i + 1)

\* the forwarders gpio_fwd_create has built and registered: over the plain
\* lines, and with the sleeping line at position 0
BuiltFwds ==
    {gpio_fwd_register(
         fwd_add_all(devm_gpio_fwd_alloc(FwdNgpio),
                     [o \in Positions |-> IF o = 0 THEN d0 ELSE PlainLine(o)], 0),
         "OK") : d0 \in {PlainLine(0), SleepLine}}

FwdBuilt ==
    /\ fwd \in BuiltFwds
    /\ fwd_lock = NULL
    /\ line_val \in {lv \in [FwdLines -> {0, 1}] : lv[SleepLine] = 1}
    /\ fcall = [t \in FwdThreads |-> IdleF]
    /\ fwd_rt = NoRt

InitFwdOps == FwdBuilt /\ RegInit /\ ParseIdle /\ ScratchOff

\* one caller of the batched operations at a time, with every mask of bound
\* positions
NextFwdOps ==
    \/ \E t \in FwdThreads : \E in \in GetInputs(fwd) :
          FwdFirst(t) /\ fgm_call(t, in[1], in[2])
    \/ \E t \in FwdThreads : \E in \in SetInputs(fwd) :
          FwdFirst(t) /\ fsm_call(t, in[1], in[2])
    \/ \E t \in FwdThreads : FStep(t)

SpecFwdOps == InitFwdOps /\ [][NextFwdOps]_vars

\* concurrent callers of the batched operations, each on all the bound
\* positions
NextFwdRace ==
    \/ \E t \in FwdThreads : \E in \in RaceInputs(fwd) : fgm_call(t, in[1], in[2])
    \/ \E t \in FwdThreads : \E in \in RaceInputs(fwd) : fsm_call(t, in[1], in[2])
    \/ \E t \in FwdThreads : FStep(t)

SpecFwdRace == InitFwdOps /\ [][NextFwdRace]_vars

\* lines 305-320: a batched read's writes to tmp[]
scratch_get ==
    /\ scratch.pc = "start"
    /\ LET w == fgm_tmp_writes(scratch.ngpio, scratch.bpl, scratch.mask) IN
       scratch' = [scratch EXCEPT !.pc = "done", !.op = "get",
                                  !.values = w.values, !.descs = w.descs]
    /\ UNCHANGED <<pvars, rvars, fvars>>

\* lines 387-402: a batched write's writes to tmp[]
scratch_set ==
    /\ scratch.pc = "start"
    /\ LET w == fsm_tmp_writes(scratch.ngpio, scratch.bpl, scratch.mask) IN
       scratch' = [scratch EXCEPT !.pc = "done", !.op = "set",
                                  !.values = w.values, !.descs = w.descs]
    /\ UNCHANGED <<pvars, rvars, fvars>>

NextScratch == scratch_get \/ scratch_set

InitScratch == ScratchInit /\ RegInit /\ ParseIdle /\ FwdOff
SpecScratch == InitScratch /\ [][NextScratch]_vars

\* A caller that is inside a callback goes on running, and a caller that
\* waits for the lock gets it if it is released again and again (the queued
\* spin lock serves its waiters in order; the mutex hands over to a waiter
\* that has been passed over).
FwdFair ==
    \A t \in FwdThreads : WF_vars(FStep(t)) /\ SF_vars(f_lock(t))

SpecFwdLive == InitFwdOps /\ [][NextFwdRace]_vars /\ FwdFair

(***************************************************************************)
(* Properties                                                              *)
(***************************************************************************)
\* the entries of a lookup table, without the zeroed end entry
Entries(lookups) == SubSeq(lookups.table, 1, table_count(lookups.table, 1))

DupRequest == <<TokGpio0, <<N(3), Comma, N(3)>>>>

\* C1: delete_device removes from the id map, and frees, only an instance
\* whose new_device call has stored its platform device (has published it).
C1_DeleteOnlyPublished ==
    \A t \in Threads :
        call[t].op = "del" /\ call[t].aggr # NULL => call[t].published

\* C2: a new_device call that succeeded, followed at once by delete_device of
\* the id it used, leaves the ids of the map as they were before the create.
C2_CreateDeleteRoundTrip ==
    \A t \in Threads :
        ( /\ call[t].op = "del" /\ call[t].pc = "ret" /\ call[t].res = "count"
          /\ call[t].prev.id # NoId /\ call[t].id = call[t].prev.id )
        => IdsOf(gpio_aggregator_idr) = call[t].prev.ids0

C2_Witness ==
    \E t \in Threads :
        /\ call[t].op = "del" /\ call[t].pc = "ret" /\ call[t].res = "count"
        /\ call[t].prev.id # NoId /\ call[t].id = call[t].prev.id
        /\ call[t].prev.ids0 # {}

IsLabel(tok) == Len(tok) = 1 /\ tok[1].k = "word"

\* a list expression: numbers separated by ',' or '-', no "a-b-c", every
\* range ascending
ListShape(tok) ==
    /\ Len(tok) % 2 = 1
    /\ \A i \in 1..Len(tok) :
          IF i % 2 = 1 THEN tok[i].k = "num" ELSE tok[i].k \in {"comma", "dash"}
    /\ \A i \in 1..Len(tok) :
          tok[i].k = "dash"
          => /\ tok[i - 1].n <= tok[i + 1].n
             /\ i + 2 <= Len(tok) => tok[i + 2].k = "comma"

ListNums(tok) == {tok[i].n : i \in {j \in 1..Len(tok) : tok[j].k = "num"}}

\* the offsets a list expression names
OffsetSet(tok) ==
    UNION { IF i + 1 <= Len(tok) /\ tok[i + 1].k = "dash"
            THEN tok[i].n .. tok[i + 2].n ELSE {tok[i].n}
            : i \in {j \in 1..Len(tok) : tok[j].k = "num"} }

\* a request of `controller list-expression` groups
GroupCount(args) == Len(args) \div 2
WellFormed(args) ==
    /\ Len(args) >= 2 /\ Len(args) % 2 = 0
    /\ \A g \in 1..GroupCount(args) :
          /\ IsLabel(args[2 * g - 1])
          /\ ListShape(args[2 * g])
          /\ \A v \in ListNums(args[2 * g]) : v < AGGREGATOR_MAX_GPIOS

\* the references of the groups before group g
RECURSIVE GroupBase(_, _)
GroupBase(args, g) ==
    IF g <= 1 THEN 0
    ELSE GroupBase(args, g - 1) + Cardinality(OffsetSet(args[2 * (g - 1)]))

C7_ParseOrder ==
    ( p_pc = "done" /\ p_mem = Unlimited /\ WellFormed(p_args) )
    => /\ p_out.err = "OK"
       /\ p_out.n = GroupBase(p_args, GroupCount(p_args) + 1)
       /\ \A g \in 1..GroupCount(p_args) :
             LET S == OffsetSet(p_args[2 * g])
                 base == GroupBase(p_args, g)
             IN \A o \in S :
                   LET pos == base + Cardinality({x \in S : x < o})
                   IN p_out.lookups.table[pos + 1]
                         = GPIO_LOOKUP_IDX(p_args[2 * g - 1], o, pos)
       /\ p_args = ScenarioRequest
             => Entries(p_out.lookups)
                   = << GPIO_LOOKUP_IDX(TokGpio0, 1, 0), GPIO_LOOKUP_IDX(TokGpio0, 3, 1),
                        GPIO_LOOKUP_IDX(TokGpio0, 4, 2), GPIO_LOOKUP_IDX(TokGpio1, 2, 3) >>

C7_Witness ==
    /\ p_pc = "done" /\ p_mem = Unlimited /\ p_args = ScenarioRequest
    /\ p_out.err = "OK" /\ p_out.n = 4

\* C8: whatever was added, the table of N entries has the entry of index k at
\* place k for every k in 0..N-1, then its zeroed end entry, and N is the
\* parser's count of references.
C8_DensePositions ==
    p_pc = "done"
    => LET tbl == p_out.lookups.table
           cnt == table_count(tbl, 1)
       IN /\ cnt = p_out.n
          /\ Len(tbl) = cnt + 1
          /\ tbl[cnt + 1] = ZeroEntry
          /\ \A k \in 1..cnt : tbl[k].idx = k - 1 /\ tbl[k].key # NoKey

\* a table built from a named line and a group of two offsets
C8_Witness ==
    /\ p_pc = "done" /\ p_out.n >= 3
    /\ \E k \in 1..p_out.n : p_out.lookups.table[k].chip_hwnum = U16_MAX
    /\ \E k \in 1..p_out.n : p_out.lookups.table[k].chip_hwnum # U16_MAX

\* C9: the id idr_alloc hands to new_device is the smallest one that was not
\* in the map, and the id delete_device removed is free again for the creates
\* that follow.
C9_SmallestFreeId ==
    \A t \in Threads :
        /\ ( call[t].op = "new" /\ call[t].pc = "nds_unlock" /\ call[t].id # NoId )
           => /\ call[t].id \notin call[t].ids_pre
              /\ \A j \in 0..(call[t].id - 1) : j \in call[t].ids_pre
              /\ gpio_aggregator_idr[call[t].id] = call[t].aggr
        /\ ( call[t].op = "del" /\ call[t].pc = "dds_unlock" /\ call[t].aggr # NULL )
           => /\ gpio_aggregator_idr[call[t].id] = NULL
              /\ nds_new_id(gpio_aggregator_idr) <= call[t].id

\* a create is handed an id that a delete had removed, below an id in use
C9_Witness ==
    \E t \in Threads :
        /\ call[t].op = "new" /\ call[t].pc = "nds_unlock"
        /\ call[t].id \in freed_ids
        /\ \E j \in call[t].ids_pre : j > call[t].id

\* C10: when new_device returns an error of aggr_parse, the ids of the map, the
\* registered lookup tables and the registered devices are those from before
\* the call, and the instance is freed.
C10_ParseErrorNotApplied ==
    \A t \in Threads :
        call[t].op = "new" /\ call[t].pc = "ret" /\ call[t].stage = "parse"
        => /\ call[t].res \in {"EINVAL", "ERANGE", "ENOMEM"}
           /\ IdsOf(gpio_aggregator_idr) = call[t].ids0
           /\ gpio_lookup_list = call[t].tabs0
           /\ RegisteredDevs = call[t].devs0
           /\ heap[call[t].aggr].st = "free"

\* a list expression out of range, refused while another instance exists
C10_Witness ==
    \E t \in Threads :
        /\ call[t].op = "new" /\ call[t].pc = "ret" /\ call[t].stage = "parse"
        /\ call[t].res = "ERANGE"
        /\ call[t].ids0 # {} /\ call[t].devs0 # {}

(***************************************************************************)
(* Properties of delete_device and of the teardown                         *)
(***************************************************************************)
\* C11: delete_device of a published instance goes in this order: the id is
\* taken out of the map with the mutex held, then the device is unregistered
\* (which releases the lines its probe requested), then the lookup table is
\* removed, then the memory is freed; nothing of the instance is released
\* while the map still leads to it.
C11_DestroyOrder ==
    \A t \in Threads :
        /\ ( call[t].op = "del" /\ call[t].pc = "dds_idr_remove" )
           => gpio_aggregator_lock = t
        /\ ( call[t].op = "del" /\ call[t].aggr # NULL /\ call[t].published )
           => LET a == call[t].aggr
                  id == call[t].id
                  detached == ~pdevs[id].reg
                  released == pdevs[id].descs = <<>> /\ ~pdevs[id].bound
                  table_gone == a \notin gpio_lookup_list
                  freed == heap[a].st = "free"
              IN /\ gpio_aggregator_idr[id] # a
                 /\ call[t].pc = "dds_unlock"
                    => gpio_aggregator_lock = t /\ ~detached /\ ~table_gone /\ ~freed
                 /\ call[t].pc = "gaf_unregister" => ~detached /\ ~table_gone /\ ~freed
                 /\ call[t].pc = "gaf_remove_table"
                    => detached /\ released /\ ~table_gone /\ ~freed
                 /\ call[t].pc = "gaf_kfree"
                    => detached /\ released /\ table_gone /\ ~freed
                 /\ call[t].pc = "ret"
                    => detached /\ released /\ table_gone /\ freed

\* the only instance, bound to the four lines of the scenario, has been
\* detached and its table is about to be removed
C11_Witness ==
    \E t \in Threads :
        /\ call[t].op = "del" /\ call[t].pc = "gaf_remove_table"
        /\ call[t].published /\ call[t].ids0 = {call[t].id}
        /\ call[t].id \in call[t].devs0
        /\ heap[call[t].aggr].args = ScenarioRequest
        /\ ~pdevs[call[t].id].reg

\* a token without the prefix, or whose id is not a decimal number
MalformedTok(tok) == ~str_has_prefix(tok) \/ kstrtouint(tok.rest).err # "OK"

\* C12: a delete_device whose token lacks the "gpio-aggregator." prefix or
\* whose id is not a decimal unsigned number returns -EINVAL at once, before
\* the mutex is taken and the map looked up; one whose id is not in the map
\* returns -ENOENT; no step of such a call changes the map, an instance, a
\* registered table or a device.
C12_DeleteRejectsBadToken ==
    [][ \A t \in Threads :
          ( /\ call'[t].op = "del"
            /\ \/ MalformedTok(call'[t].tok)
               \/ kstrtouint(call'[t].tok.rest).val \notin call'[t].ids0 )
          => /\ UNCHANGED <<gpio_aggregator_idr, heap, gpio_lookup_list, pdevs>>
             /\ MalformedTok(call'[t].tok)
                => call'[t].pc = "ret" /\ call'[t].res = "EINVAL"
             /\ call'[t].pc = "ret" => call'[t].res \in {"EINVAL", "ENOENT"}
      ]_vars

\* "gpio.0" is refused while the id 0 is in the map
C12_Witness ==
    \E t \in Threads :
        /\ call[t].op = "del" /\ call[t].pc = "ret" /\ call[t].res = "EINVAL"
        /\ ~str_has_prefix(call[t].tok) /\ kstrtouint(call[t].tok.rest).err = "OK"
        /\ kstrtouint(call[t].tok.rest).val \in IdsOf(gpio_aggregator_idr)

\* C13: when gpio_aggregator_remove_all returns, every instance that was in
\* the map has been freed with its device and its table, and the map is
\* empty; run on an empty map it frees nothing and leaves the map empty.
C13_BulkTeardown ==
    \A t \in Threads :
        call[t].op = "exit"
        => /\ call[t].pc = "ret"
              => /\ IdsOf(gpio_aggregator_idr) = {}
                 /\ \A a \in Aggrs : heap[a].st = "free"
                 /\ gpio_lookup_list = {}
                 /\ RegisteredDevs = {}
                 /\ gpio_aggregator_lock = NULL
           /\ call[t].ids0 = {}
              => /\ IdsOf(gpio_aggregator_idr) = {}
                 /\ call[t].id = NoId
                 /\ gpio_lookup_list = call[t].tabs0
                 /\ RegisteredDevs = call[t].devs0

\* the teardown has returned after it found two instances in the map
C13_Witness ==
    \E t \in Threads :
        /\ call[t].op = "exit" /\ call[t].pc = "ret"
        /\ Cardinality(call[t].ids0) >= 2
        /\ Cardinality(call[t].devs0) >= 2

C15_LockKindFixed ==
    fwd.st = "registered"
    => /\ fwd.can_sleep = fwd.reg_can_sleep
       /\ fwd.lock_init = IF fwd.reg_can_sleep THEN "mutex" ELSE "spin"
       /\ \A t \in FwdThreads :
             fcall[t].pc \in {"compact", "issue", "unlock"}
             => fcall[t].lk = fwd.lock_init

InCritical(t) == fcall[t].pc \in {"compact", "issue", "unlock"}

\* C16: at most one caller of get_multiple / set_multiple is between its
\* lock and its unlock, where tmp is read and written, and that caller holds
\* the forwarder's lock.
C16_BatchedMutex ==
    /\ Cardinality({t \in FwdThreads : InCritical(t)}) <= 1
    /\ \A t \in FwdThreads : InCritical(t) => fwd_lock = t

\* a get has compacted its handles while a set waits for the lock
C16_Witness ==
    \E t, u \in FwdThreads :
        /\ fcall[t].op = "get" /\ fcall[t].pc = "issue" /\ fcall[t].mask # {}
        /\ fcall[u].op = "set" /\ fcall[u].pc = "lock"

\* C17: after a get_multiple that returned 0, bit i of bits for every i of
\* mask is the value the provider read on the line bound at position i, and
\* the bits outside mask are those the caller passed.
C17_GetMultipleExpands ==
    \A t \in FwdThreads :
        ( fcall[t].op = "get" /\ fcall[t].pc \in {"unlock", "ret"}
          /\ fcall[t].res = "OK" )
        => /\ \A i \in fcall[t].mask :
                 (i \in fcall[t].bits) <=> (fcall[t].seen[fwd.descs[i]] = 1)
           /\ fcall[t].bits \ fcall[t].mask = fcall[t].bits0 \ fcall[t].mask

\* a mask with a gap below a position whose line reads 1 while the line of
\* the position at its compacted index reads 0, and a bit kept outside mask
C17_Witness ==
    \E t \in FwdThreads :
        /\ fcall[t].op = "get" /\ fcall[t].pc = "ret" /\ fcall[t].res = "OK"
        /\ fcall[t].bits0 \ fcall[t].mask # {}
        /\ \E i \in fcall[t].mask :
              /\ fwd_rank(i, fcall[t].mask) # i
              /\ fcall[t].seen[fwd.descs[i]] = 1
              /\ fcall[t].seen[fwd.descs[fwd_rank(i, fcall[t].mask)]] = 0

\* C18: when the provider's read fails, get_multiple returns its error and
\* bits is as the caller passed it.
C18_GetMultipleErrorNoPartial ==
    \A t \in FwdThreads :
        ( fcall[t].op = "get" /\ fcall[t].pc \in {"unlock", "ret"}
          /\ fcall[t].res # "OK" )
        => fcall[t].res = "EIO" /\ fcall[t].bits = fcall[t].bits0

\* the read failed for a mask whose bits the caller had passed set
C18_Witness ==
    \E t \in FwdThreads :
        /\ fcall[t].op = "get" /\ fcall[t].pc = "ret" /\ fcall[t].res = "EIO"
        /\ fcall[t].bits0 \cap fcall[t].mask # {}

\* C19: a get_multiple of mask that read vals, then a set_multiple of mask
\* with vals, then a get_multiple of mask: the last reads vals again.
C19_GetSetGetRoundTrip ==
    fwd_rt.stage = 3 => fwd_rt.got = fwd_rt.vals

\* the round trip on a mask with a gap below a position that read 1
C19_Witness ==
    /\ fwd_rt.stage = 3
    /\ \E i \in fwd_rt.mask : fwd_rank(i, fwd_rt.mask) # i /\ i \in fwd_rt.vals

\* C20: gpio_fwd_request returns 0 when a handle is bound at the position and
\* -ENODEV when none is, and changes nothing of the forwarder.
C20_RequestChecksHandle ==
    [][ \A t \in FwdThreads :
          ( fcall[t].op = "idle" /\ fcall'[t].op = "request" )
          => /\ fcall'[t].res = IF fwd.descs[fcall'[t].offset] # NoDesc
                                THEN "0" ELSE "ENODEV"
             /\ fcall'[t].pc = "ret"
             /\ UNCHANGED <<fwd, fwd_lock, line_val, fwd_rt>>
      ]_vars

\* -ENODEV for an unbound position of a forwarder that has a bound one
C20_Witness ==
    \E t \in FwdThreads :
        /\ fcall[t].op = "request" /\ fcall[t].res = "ENODEV"
        /\ fwd.descs[fcall[t].offset] = NoDesc
        /\ Bound(fwd) # {}

\* C21: on a registered forwarder, get and set on a position that has no
\* handle are rejected: get reports an error, not a value of a line, and set
\* performs no write of the provider and no wait.
C21_UnboundRejected ==
    \A t \in FwdThreads :
        LET c == fcall[t] IN
        (c.pc = "ret" /\ fwd.st = "registered" /\ fwd.descs[c.offset] = NoDesc) =>
            /\ c.op = "get_value" => c.res \notin LineValues
            /\ c.op = "set_value" =>
                   c.wrote = NoDesc /\ c.wait = NoWait /\ line_val = c.seen

\* a single-line set that has run on a forwarder with a delay table
SetDone(t) ==
    fcall[t].op = "set_value" /\ fcall[t].pc = "ret" /\ fwd.has_timings

\* C22: with a delay table, the wait of set(position, value) is the position's
\* rising delay when value is set and the line is active-high or value is
\* clear and the line is active-low, its falling delay otherwise; a selected
\* delay of 0 invokes no wait primitive.
C22_DelayFollowsPolarity ==
    \A t \in FwdThreads :
        SetDone(t) =>
            LET c == fcall[t]
                low == c.wrote \in ActiveLowLines
                rising == (c.value = 1 /\ ~low) \/ (c.value = 0 /\ low)
                d == IF rising THEN c.timing.ramp_up_us ELSE c.timing.ramp_down_us
            IN /\ d = 0 => c.wait.prim = "none"
               /\ d # 0 => c.wait.prim \in {"fsleep", "udelay"} /\ c.wait.us = d

\* a set of value 0 on an active-low line has waited the rising delay
C22_Witness ==
    \E t \in FwdThreads :
        /\ SetDone(t) /\ fcall[t].wrote \in ActiveLowLines /\ fcall[t].value = 0
        /\ fcall[t].timing.ramp_up_us = RampUs /\ fcall[t].wait.us = RampUs

\* position 0 has the timing (rising 0, falling RampUs) and set(0, value) has
\* changed the line
RampScenario(t) ==
    /\ SetDone(t) /\ fcall[t].offset = 0
    /\ fcall[t].timing = [ramp_up_us |-> 0, ramp_down_us |-> RampUs]
    /\ fcall[t].seen[fcall[t].wrote] # fcall[t].value
    /\ line_val[fcall[t].wrote] = fcall[t].value

\* C23 as stated: with the timing (rising 0, falling 200us) on position 0, the
\* set that makes the line active returns without a wait and the set that
\* makes it inactive waits 200us.
C23_ActiveNoWait ==
    \A t \in FwdThreads :
        RampScenario(t) =>
            /\ fcall[t].value = 1 => fcall[t].wait = NoWait
            /\ fcall[t].value = 0 => fcall[t].wait.prim # "none" /\ fcall[t].wait.us = RampUs

\* C23, amended: the same when the line at position 0 is active-high.
C23_ActiveHighNoWait ==
    \A t \in FwdThreads :
        (RampScenario(t) /\ fcall[t].wrote \notin ActiveLowLines) =>
            /\ fcall[t].value = 1 => fcall[t].wait = NoWait
            /\ fcall[t].value = 0 => fcall[t].wait.prim # "none" /\ fcall[t].wait.us = RampUs

\* the set that makes an active-high line at position 0 inactive has waited
C23_Witness ==
    \E t \in FwdThreads :
        /\ RampScenario(t) /\ fcall[t].wrote \notin ActiveLowLines
        /\ fcall[t].value = 0 /\ fcall[t].wait.us = RampUs

\* the provider's functions that may be called from a context that cannot
\* sleep
AtomicPrims == {"none", "gpiod_get_value", "gpiod_set_value",
                "gpiod_get_array_value", "gpiod_set_array_value"}

\* C24: on a forwarder whose can_sleep is false, get, set, get_multiple and
\* set_multiple take only the spin lock, call only the provider's functions
\* that do not sleep, and wait only by udelay.
C24_NeverSleeps ==
    \A t \in FwdThreads :
        (fwd.st = "registered" /\ ~fwd.can_sleep) =>
            /\ fcall[t].lk \in {"none", "spin"}
            /\ fcall[t].op \in {"get", "set"} /\ fcall[t].pc \in {"compact", "issue", "unlock"}
                  => fcall[t].lk = "spin" /\ fwd.lock_init = "spin"
            /\ fcall[t].prim \in AtomicPrims
            /\ fcall[t].wait.prim \in {"none", "udelay"}

\* a set on a forwarder that cannot sleep has waited by udelay
C24_Witness ==
    \E t \in FwdThreads :
        /\ fwd.st = "registered" /\ ~fwd.can_sleep
        /\ fcall[t].op = "set_value" /\ fcall[t].pc = "ret"
        /\ fcall[t].prim = "gpiod_set_value" /\ fcall[t].wait.prim = "udelay"

\* C25: a set_config call on the composite device reaches the provider of the
\* line bound at the position, with the configuration unchanged.
C25_SetConfigReachesProvider ==
    \A t \in FwdThreads :
        (fcall[t].op = "set_config" /\ fcall[t].pc = "ret") =>
            /\ fcall[t].wrote = fwd.descs[fcall[t].offset]
            /\ fcall[t].cfg = fcall[t].value

\* C26: when a batched read or write returns, with or without an error of
\* the provider, its caller no longer holds the lock, and every batched
\* operation that asks for the lock goes on to return.
C26_LockReleasedAfterError ==
    /\ [](\A t \in FwdThreads : fcall[t].pc = "ret" => fwd_lock # t)
    /\ \A t \in FwdThreads : (fcall[t].pc = "lock") ~> (fcall[t].pc = "ret")

\* a batched read has returned the provider's error and another caller holds
\* the lock
C26_Witness ==
    \E t, u \in FwdThreads :
        /\ fcall[t].pc = "ret" /\ fcall[t].res = "EIO"
        /\ fwd_lock = u /\ fcall[u].pc = "compact"

\* C27: for every line count and mask, a batched get or set writes its value
\* bits only to the words of tmp[] that hold the bits of the lines, its
\* compacted handles only to the words after them, and nothing past the
\* allocated size; the two regions share no word.
C27_ScratchRegionsDisjoint ==
    scratch.pc = "done" =>
        LET n == scratch.ngpio
            value_region == {w \in 0..n : \E b \in 0..(n - 1) : b \div scratch.bpl = w}
            handle_region == {w \in 0..(scratch.size - 1) : w \notin value_region}
        IN /\ scratch.values \subseteq value_region
           /\ scratch.descs \subseteq handle_region
           /\ value_region \subseteq 0..(scratch.size - 1)
           /\ Cardinality(handle_region) = n
           /\ scratch.values \cap scratch.descs = {}

\* a batched read of all the lines of a forwarder whose value bits take more
\* than one word
C27_Witness ==
    /\ scratch.pc = "done" /\ scratch.op = "get"
    /\ scratch.ngpio > scratch.bpl
    /\ Cardinality(scratch.descs) = scratch.ngpio
    /\ Cardinality(scratch.values) > 1

\* C28: gpio_fwd_add_gpio_desc with an offset at or above chip->ngpio returns
\* -EINVAL and leaves the handles and can_sleep as they were; with an offset
\* below it that has a handle it returns -EEXIST and leaves the forwarder as
\* it was.
C28_AddOnlyBelowLineCount ==
    [][\A a \in AddInputs :
          fwd_add_gpio_desc(a[1], a[2]) =>
              /\ a[2] >= fwd.ngpio =>
                     /\ fwd' = fwd
                     /\ \A rp \in PastReads(fwd) :
                           gpio_fwd_add_gpio_desc(fwd, a[1], a[2], rp).err = "EINVAL"
              /\ (a[2] < fwd.ngpio /\ fwd.descs[a[2]] # NoDesc) =>
                     /\ fwd' = fwd
                     /\ \A rp \in PastReads(fwd) :
                           gpio_fwd_add_gpio_desc(fwd, a[1], a[2], rp).err = "EEXIST"]_vars

\* a token with a character that is no digit, ',' or '-'
LabelTok(tok) == \E i \in 1..Len(tok) : tok[i].k = "word"

\* C29: a label that is the last token of the request yields no reference: a
\* request of one token fails with "No GPIOs specified", a request of k
\* labels yields the k-1 by-name references of the labels before the last,
\* and a label after well-formed groups adds nothing to them.
C29_LastLabelDropped ==
    (p_pc = "done" /\ p_mem = Unlimited) =>
        LET k == Len(p_args) IN
        /\ k = 1 => /\ p_out.err = "EINVAL" /\ p_out.msg = "No GPIOs specified"
                    /\ p_out.n = 0
        /\ (k >= 2 /\ \A i \in 1..k : LabelTok(p_args[i])) =>
               /\ p_out.err = "OK" /\ p_out.n = k - 1
               /\ Len(Entries(p_out.lookups)) = k - 1
               /\ \A i \in 1..(k - 1) :
                     p_out.lookups.table[i] = GPIO_LOOKUP_IDX(p_args[i], U16_MAX, i - 1)
        /\ (k >= 3 /\ LabelTok(p_args[k]) /\ WellFormed(SubSeq(p_args, 1, k - 1))) =>
               LET groups == SubSeq(p_args, 1, k - 1) IN
               /\ p_out.err = "OK"
               /\ p_out.n = GroupBase(groups, GroupCount(groups) + 1)
               /\ Len(Entries(p_out.lookups)) = p_out.n
               /\ \A i \in 1..p_out.n : p_out.lookups.table[i].chip_hwnum # U16_MAX

\* three labels have given two by-name references
C29_Witness ==
    /\ p_pc = "done" /\ p_mem = Unlimited
    /\ Len(p_args) = 3 /\ \A i \in 1..3 : LabelTok(p_args[i])
    /\ p_out.err = "OK" /\ p_out.n = 2

\* C30: when devm_gpio_fwd_alloc has failed, gpio_fwd_create returns the
\* error before it binds a handle, sets up the delay table or registers the
\* chip: it never uses the failed result as a forwarder.
C30_CreateStopsOnAllocFailure ==
    \A t \in FwdThreads :
        (fcall[t].op = "create" /\ fcall[t].ptr = ErrPtr) =>
            /\ fcall[t].pc \in {"fc_check", "ret"}
            /\ fcall[t].pc = "ret" => fcall[t].res = "ENOMEM" /\ fwd = NoFwd

====
